---- MODULE Spec2Model ----
(***************************************************************************)
(* Model of xzdecoder.py: the XZ stream / block parser (XZFile, XZBlock).  *)
(*                                                                         *)
(* The source file is a sequence of bytes (0..255).  Python indexes from 0 *)
(* and TLA+ sequences from 1: At(s, i) is Python's s[i].                   *)
(* A Python exception is the string in the field exc of a result record;   *)
(* exc = "" means the call returned normally.  Python's None is None, and  *)
(* a set optional value v is Some(v).                                      *)
(***************************************************************************)
EXTENDS Integers, Sequences, FiniteSets, TLC

VARIABLES
    src,          \* the bytes of the source file (never written)
    stream,       \* ghost: the layout the source was built from
    check_size,   \* XZFile._check_size
    block_index,  \* XZFile._block_index: the list of XZBlock objects
    block_max,    \* XZFile._block_max: None or an integer
    last,         \* the last finished XZFile call and what it returned
    hist,         \* ghost: what earlier calls established
    blk,          \* one XZBlock object, for the size decoder
    dec,          \* the last _evaluate_size call on blk and its result
    acc,          \* the last call made on blk (constructor, accessor)
    heap,         \* the XZBytes objects made so far and who holds them
    fp_pos,       \* the cursor of the shared file object
    fp_by,        \* ghost: the thread and operation that moved it last
    locks,        \* lock object -> the thread holding it (0: free)
    th,           \* thread -> its position in the operation it runs
    torn          \* ghost: the first read made at a position another thread set

vars == <<src, stream, check_size, block_index, block_max, last, hist, blk, dec,
          acc, heap, fp_pos, fp_by, locks, th, torn>>

----------------------------------------------------------------------------
(* Bounds of the model and constants of the program *)

\* the most blocks a generated stream holds
MaxBlocks == 3

\* the latest construction of a call that an I/O error is tried on
MaxIoFail == 1

\* STREAM_HEADER_LENGTH
STREAM_HEADER_LENGTH == 12

None == <<>>
Some(v) == <<v>>
Val(o) == o[1]

----------------------------------------------------------------------------
(* Bytes *)

Min(a, b) == IF a < b THEN a ELSE b

\* Python s[i] on an in-range index
At(s, i) == s[i + 1]

\* x & m for m = 2^k - 1, and single-bit tests
Low7(x) == x % 128
HighBit(x) == (x \div 128) % 2 = 1
Bit6(x) == (x \div 64) % 2 = 1
LowNibble(x) == x % 16

\* n copies of byte b
Rep(b, n) == [i \in 1..n |-> b]

\* fp.seek(pos); fp.read(n): a short result at the end of the file
ReadAt(s, pos, n) ==
    IF pos >= Len(s) \/ n = 0 THEN <<>>
    ELSE IF n < 0 THEN SubSeq(s, pos + 1, Len(s))
    ELSE SubSeq(s, pos + 1, Min(pos + n, Len(s)))

----------------------------------------------------------------------------
(* XZBlock *)

\* the lock object XZFile.__init__ creates
FileLock == 0

\* threading.Lock() called while constructing the block at offset: a new
\* lock object, named by that offset (block offsets are >= 12)
NewLock(offset) == offset

\* XZBlock.flag: header[1]
Flag(header) == At(header, 1)

\* The object XZBlock.__init__ leaves behind when it returns normally
NewBlock(header, header_length, offset, block_check_size, lock) ==
    [offset |-> offset,
     header |-> header,
     header_length |-> header_length,
     block_check_size |-> block_check_size,
     fp_lock |-> lock,
     number_of_filters |-> Flag(header) % 4,
     decode_offset |-> 2,
     compressed_size |-> None,
     compressed_data |-> None,
     uncompressed_size |-> None,
     uncompressed_data |-> None]

\* The part of XZBlock.__init__ after the first read: first is the result
\* of read(1) at offset, rest the result of read(header_length - 1).
\* why tells the causes of an IndexError apart (Python does not).
\* header_length as __init__ computes it from the first byte read
HeaderLengthOf(first) == At(first, 0) * 4 + 4

\* Faulty variant of BlockOfHeader: the header is refused only when both
\* size bits are clear
BlockOfHeader_And(header, header_length, offset, block_check_size, lock) ==
    IF Len(header) < 2
    THEN [exc |-> "IndexError", why |-> "truncated"]
    ELSE IF ~Bit6(Flag(header)) /\ ~HighBit(Flag(header))
    THEN [exc |-> "NotImplementedError", why |-> "nosize"]
    ELSE [exc |-> "", why |-> "",
          blk |-> NewBlock(header, header_length, offset,
                           block_check_size, lock)]

\* __init__ once the whole header is read
BlockOfHeader(header, header_length, offset, block_check_size, lock) ==
    IF Len(header) < 2
    THEN [exc |-> "IndexError", why |-> "truncated"]
    ELSE IF ~Bit6(Flag(header)) \/ ~HighBit(Flag(header))
    THEN [exc |-> "NotImplementedError", why |-> "nosize"]
    ELSE [exc |-> "", why |-> "",
          blk |-> NewBlock(header, header_length, offset,
                           block_check_size, lock)]

BlockFromHeader(first, rest, offset, block_check_size, lock) ==
    IF Len(first) = 0
    THEN [exc |-> "IndexError", why |-> "eof"]
    ELSE IF At(first, 0) = 0
    THEN [exc |-> "IndexError", why |-> "marker"]
    ELSE BlockOfHeader(first \o rest, HeaderLengthOf(first), offset,
                       block_check_size, lock)

\* XZBlock(file, offset, block_check_size, file_lock) when no other thread
\* moves the cursor between the seek and the reads.  file_lock is None or
\* Some(lock); io_ok = FALSE is a seek or read that raises OSError.
\* the second read of __init__ after first was read at offset (none when
\* the constructor has raised by then)
RestOfHeader(s, offset, first) ==
    IF Len(first) = 0 \/ At(first, 0) = 0 THEN <<>>
    ELSE ReadAt(s, offset + 1, HeaderLengthOf(first) - 1)

\* Faulty variant of XZBlock_init: two bytes are read and the flags are
\* tested before the size byte is compared with 0
XZBlock_init_FlagsFirst(s, offset, block_check_size, file_lock, io_ok) ==
    IF ~io_ok THEN [exc |-> "OSError", why |-> "io"]
    ELSE IF Len(ReadAt(s, offset, 2)) = 2
            /\ (~Bit6(Flag(ReadAt(s, offset, 2)))
                \/ ~HighBit(Flag(ReadAt(s, offset, 2))))
    THEN [exc |-> "NotImplementedError", why |-> "nosize"]
    ELSE BlockFromHeader(
             ReadAt(s, offset, 1),
             RestOfHeader(s, offset, ReadAt(s, offset, 1)),
             offset, block_check_size,
             IF file_lock = None THEN NewLock(offset) ELSE Val(file_lock))

XZBlock_init(s, offset, block_check_size, file_lock, io_ok) ==
    IF ~io_ok THEN [exc |-> "OSError", why |-> "io"]
    ELSE BlockFromHeader(
             ReadAt(s, offset, 1),
             RestOfHeader(s, offset, ReadAt(s, offset, 1)),
             offset, block_check_size,
             IF file_lock = None THEN NewLock(offset) ELSE Val(file_lock))

\* The integer whose 7-bit groups, low group first, are g: what the
\* accumulator "size" holds after size |= (x & 0x7F) << (i * 7) for each i
RECURSIVE GroupsValue(_)
GroupsValue(g) ==
    IF Len(g) = 0 THEN 0 ELSE g[1] + 128 * GroupsValue(Tail(g))

\* Faulty variant of EvaluateLoop: the ValueError test looks at the low 7 bits only,
\* so a continuation byte 0x80 is refused like a zero byte
RECURSIVE EvaluateLoop_RefuseLow7Zero(_, _, _, _)
EvaluateLoop_RefuseLow7Zero(head_data, decode_offset, groups, i) ==
    IF decode_offset + i >= Len(head_data)
    THEN [exc |-> "IndexError", size |-> 0, i |-> i]
    ELSE LET x == At(head_data, decode_offset + i)
         IN IF Low7(x) = 0
            THEN [exc |-> "ValueError", size |-> 0, i |-> i]
            ELSE IF ~HighBit(x)
            THEN [exc |-> "", i |-> i,
                  size |-> GroupsValue(Append(groups, Low7(x)))]
            ELSE EvaluateLoop_RefuseLow7Zero(head_data, decode_offset,
                                             Append(groups, Low7(x)), i + 1)

\* XZBlock._evaluate_size, the loop from iteration i on.  The accumulator is
\* kept as its 7-bit groups and made an integer when the loop ends (Python
\* integers are unbounded; a field that never ends would leave the range
\* of the checker's integers before the IndexError).
RECURSIVE EvaluateLoop(_, _, _, _)
EvaluateLoop(head_data, decode_offset, groups, i) ==
    IF decode_offset + i >= Len(head_data)
    THEN [exc |-> "IndexError", size |-> 0, i |-> i]
    ELSE LET x == At(head_data, decode_offset + i)
         IN IF x = 0
            THEN [exc |-> "ValueError", size |-> 0, i |-> i]
            ELSE IF ~HighBit(x)
            THEN [exc |-> "", i |-> i,
                  size |-> GroupsValue(Append(groups, Low7(x)))]
            ELSE EvaluateLoop(head_data, decode_offset,
                              Append(groups, Low7(x)), i + 1)

\* XZBlock._evaluate_size: the value returned and the block afterwards
\* (the cursor _decode_offset moves only when the call returns normally)
Evaluated(b, r) ==
    IF r.exc # ""
    THEN [exc |-> r.exc, size |-> 0, blk |-> b]
    ELSE [exc |-> "", size |-> r.size,
          blk |-> [b EXCEPT !.decode_offset = @ + r.i + 1]]

evaluate_size(b) ==
    IF b.decode_offset >= Len(b.header)
    THEN [exc |-> "IndexError", size |-> 0, blk |-> b]
    ELSE Evaluated(b, EvaluateLoop(b.header, b.decode_offset,
                                   <<Low7(At(b.header, b.decode_offset))>>,
                                   1))

\* Python's "not x" for x None or an integer
Not(o) == o = None \/ Val(o) = 0

\* self._compressed_size = self._evaluate_size(), r the result of the call
SetCompressedSize(b, r) ==
    IF r.exc # "" THEN [exc |-> r.exc, val |-> 0, blk |-> b]
    ELSE [exc |-> "", val |-> r.size,
          blk |-> [r.blk EXCEPT !.compressed_size = Some(r.size)]]

\* XZBlock.compressed_size: the value returned and the block afterwards
compressed_size(b) ==
    IF Not(b.compressed_size)
    THEN SetCompressedSize(b, evaluate_size(b))
    ELSE [exc |-> "", val |-> Val(b.compressed_size), blk |-> b]

\* compressed_size rounded up to a multiple of 4
Padded(n) == IF n % 4 = 0 THEN n ELSE n + (4 - (n % 4))

\* r with its value changed to v, when r is no exception
WithVal(r, v) == IF r.exc # "" THEN r ELSE [r EXCEPT !.val = v]

\* the padded size from the result r of compressed_size
PaddedOf(r) == WithVal(r, Padded(r.val))

\* XZBlock.compressed_size_padded
compressed_size_padded(b) == PaddedOf(compressed_size(b))

\* self._uncompressed_size = self._evaluate_size(), r the result of the
\* call on the block b1
SetUncompressedSize(b1, r) ==
    IF r.exc # "" THEN [exc |-> r.exc, val |-> 0, blk |-> b1]
    ELSE [exc |-> "", val |-> r.size,
          blk |-> [r.blk EXCEPT !.uncompressed_size = Some(r.size)]]

\* self._uncompressed_size = self.compressed_size, c the result of the
\* accessor, and then the decoding of the field
UncompressedAfter(c) ==
    IF c.exc # "" THEN c
    ELSE SetUncompressedSize(
             [c.blk EXCEPT !.uncompressed_size = Some(c.val)],
             evaluate_size([c.blk EXCEPT !.uncompressed_size = Some(c.val)]))

\* XZBlock.uncompressed_size: the value returned and the block afterwards
uncompressed_size(b) ==
    IF Not(b.uncompressed_size)
    THEN UncompressedAfter(compressed_size(b))
    ELSE [exc |-> "", val |-> Val(b.uncompressed_size), blk |-> b]

\* Faulty variant of EndOffsetOf: the header, the payload and the check
\* are not added to the offset
EndOffsetOf_Same(b, r) == WithVal(r, b.offset)

\* the end offset from the result r of compressed_size_padded
EndOffsetOf(b, r) ==
    WithVal(r, b.offset + b.header_length + r.val + b.block_check_size)

\* XZBlock.end_offset
end_offset(b) == EndOffsetOf(b, compressed_size_padded(b))

----------------------------------------------------------------------------
(* XZBlock: the payload accessors and their weak references *)

\* An XZBytes object: its bytes and the number of strong references other
\* than the block's weak one.  Under CPython's reference counting the object
\* is gone as soon as that number is 0.
NewBytes(kind, data) == [kind |-> kind, data |-> data, owners |-> 0]

\* self._compressed_data is None or self._compressed_data() is None, for
\* the weak reference ref (None, or Some(position in the heap))
Gone(h, ref) == ref = None \/ h[Val(ref)].owners = 0

\* lzma.decompress(data, FORMAT_RAW, [LZMA2, preset 7]) hands the bytes to
\* liblzma.  What follows is liblzma's decoder (range_decoder.h,
\* lzma_decoder.c, lzma2_decoder.c), with its names.

\* the dictionary size of preset 7, 16 MiB
dict_size == 16777216

\* A 32-bit unsigned value is kept as <<high 16 bits, low 16 bits>>.
WordLess(a, b) == a[1] < b[1] \/ (a[1] = b[1] /\ a[2] < b[2])

\* a - b modulo 2^32
WordSub(a, b) ==
    <<(a[1] - b[1] - (IF a[2] < b[2] THEN 1 ELSE 0) + 65536) % 65536,
      (a[2] - b[2] + 65536) % 65536>>

\* (a << 8) | byte, on 32 bits
WordShift(a, byte) ==
    <<(a[1] % 256) * 256 + a[2] \div 256, (a[2] % 256) * 256 + byte>>

\* (range >> RC_BIT_MODEL_TOTAL_BITS) * prob
rc_bound(range, prob) ==
    LET r == range[1] * 32 + range[2] \div 2048
        lo == (r % 65536) * prob
    IN <<(r \div 65536) * prob + lo \div 65536, lo % 65536>>

\* a probability of the coder c, bit_reset to RC_BIT_MODEL_TOTAL / 2 when
\* the state is reset
Prob(c, key) == IF key \in DOMAIN c.probs THEN c.probs[key] ELSE 1024

SetProb(c, key, p) ==
    [k \in DOMAIN c.probs \cup {key} |-> IF k = key THEN p ELSE c.probs[k]]

\* the coder stops: it wants more input than there is ("more"), or the
\* input is corrupt ("corrupt")
Stop(c, end) == [c EXCEPT !.end = end, !.bit = 0, !.val = 0]

\* rc_normalize: the range is below RC_TOP_VALUE (2^24), one byte is
\* shifted in
rc_normalize(data, c) ==
    IF c.end # "" \/ c.range[1] >= 256 THEN c
    ELSE IF c.pos >= Len(data) THEN Stop(c, "more")
    ELSE [c EXCEPT !.range = WordShift(c.range, 0),
                   !.code = WordShift(c.code, At(data, c.pos)),
                   !.pos = c.pos + 1]

\* rc_if_0 with rc_update_0 or rc_update_1 on the normalized coder n: the
\* bit decoded with the probability at key
rc_decoded(n, key, p, bound) ==
    IF WordLess(n.code, bound)
    THEN [n EXCEPT !.range = bound, !.bit = 0,
                   !.probs = SetProb(n, key, p + (2048 - p) \div 32)]
    ELSE [n EXCEPT !.range = WordSub(n.range, bound),
                   !.code = WordSub(n.code, bound), !.bit = 1,
                   !.probs = SetProb(n, key, p - p \div 32)]

rc_normalized(n, key) ==
    IF n.end # "" THEN n
    ELSE rc_decoded(n, key, Prob(n, key), rc_bound(n.range, Prob(n, key)))

rc_bit(data, c, key) == rc_normalized(rc_normalize(data, c), key)

\* rc_direct on the normalized coder n, range halved: code -= range, and
\* bit 31 of the difference tells the bit
rc_halved(n, range) ==
    IF WordSub(n.code, range)[1] >= 32768
    THEN [n EXCEPT !.range = range, !.bit = 0]
    ELSE [n EXCEPT !.range = range, !.code = WordSub(n.code, range),
                   !.bit = 1]

rc_direct(data, c) ==
    LET n == rc_normalize(data, c)
    IN IF n.end # "" THEN n
       ELSE rc_halved(n, <<n.range[1] \div 2,
                           (n.range[1] % 2) * 32768 + n.range[2] \div 2>>)

\* rc_read_init: five bytes, the first of them 0
RECURSIVE rc_read_init(_, _, _)
rc_read_init(data, c, init_bytes_left) ==
    IF init_bytes_left = 0 THEN c
    ELSE IF c.pos >= Len(data) THEN Stop(c, "more")
    ELSE IF init_bytes_left = 5 /\ At(data, c.pos) # 0
    THEN Stop(c, "corrupt")
    ELSE rc_read_init(data,
                      [c EXCEPT !.code = WordShift(c.code, At(data, c.pos)),
                                !.pos = c.pos + 1],
                      init_bytes_left - 1)

\* a bit tree: symbol = 1; do rc_bit(probs[symbol]) while (symbol < limit)
RECURSIVE rc_bittree(_, _, _, _, _, _)
rc_bittree(data, c, name, sub, symbol, limit) ==
    IF c.end # "" THEN c
    ELSE IF symbol >= limit THEN [c EXCEPT !.val = symbol - limit]
    ELSE LET b == rc_bit(data, c, <<name, sub, symbol>>)
         IN rc_bittree(data, b, name, sub, 2 * symbol + b.bit, limit)

\* a reverse bit tree of limit bits on the probabilities from base on: the
\* bit decoded at offset is added to value as 1 << offset
RECURSIVE rc_reverse(_, _, _, _, _, _, _, _)
rc_reverse(data, c, name, base, symbol, offset, limit, value) ==
    IF c.end # "" THEN c
    ELSE IF offset >= limit THEN [c EXCEPT !.val = value]
    ELSE LET b == rc_bit(data, c, <<name, 0, base + symbol>>)
         IN rc_reverse(data, b, name, base, 2 * symbol + b.bit, offset + 1,
                       limit, value + b.bit * 2 ^ offset)

\* a distance that is no less than the dictionary size is invalid whatever
\* it is, the end of payload marker UINT32_MAX included: it is kept as
\* dict_size
Capped(distance) == IF distance > dict_size THEN dict_size ELSE distance

\* do rc_direct(rep0) while (--limit > 0)
RECURSIVE rc_directs(_, _, _, _)
rc_directs(data, c, rep0, limit) ==
    IF c.end # "" THEN c
    ELSE IF limit = 0 THEN [c EXCEPT !.val = rep0]
    ELSE LET b == rc_direct(data, c)
         IN rc_directs(data, b, Capped(2 * rep0 + b.bit), limit - 1)

\* dict_get: the byte at distance behind the end of the dictionary; the
\* byte before an empty dictionary is 0
dict_get(c, distance) ==
    IF distance < c.full THEN c.out[Len(c.out) - distance] ELSE 0

\* dict_is_distance_valid
dict_is_distance_valid(c, distance) == Min(c.full, dict_size) > distance

\* dict_put
dict_put(c, byte) ==
    [c EXCEPT !.out = Append(c.out, byte), !.full = c.full + 1,
              !.uncompressed_size = c.uncompressed_size - 1]

\* dict_repeat: len bytes from distance, each byte the one that lies
\* distance + 1 before it, as far as the chunk goes; what is left of len
\* when the chunk is full makes the data corrupt
dict_repeated(c, distance, len) ==
    [c EXCEPT !.out = c.out \o [j \in 1..len |->
                                   c.out[Len(c.out) - distance
                                             + ((j - 1) % (distance + 1))]],
              !.full = c.full + len,
              !.uncompressed_size = c.uncompressed_size - len]

dict_repeat(c, distance, len) ==
    IF len > c.uncompressed_size
    THEN Stop(dict_repeated(c, distance, c.uncompressed_size), "corrupt")
    ELSE dict_repeated(c, distance, len)

\* the literal decoded with the match byte: len and offset of the loop;
\* match_bit is len & offset, and offset is 0x100 or 0
match_bit(len, offset) ==
    IF offset = 256 /\ (len \div 256) % 2 = 1 THEN 256 ELSE 0

RECURSIVE literal_matched(_, _, _, _, _, _)
literal_matched(data, c, sub, symbol, offset, len) ==
    IF c.end # "" THEN c
    ELSE IF symbol >= 256 THEN [c EXCEPT !.val = symbol - 256]
    ELSE LET b == rc_bit(data, c, <<"literal", sub,
                                    offset + match_bit(len, offset) + symbol>>)
         IN literal_matched(data, b, sub, 2 * symbol + b.bit,
                            IF b.bit = 1 THEN match_bit(len, offset)
                            ELSE offset - match_bit(len, offset),
                            (2 * len) % 512)

\* literal_subcoder: the probabilities of the literal at this position
\* after this byte
literal_subcoder(c) ==
    (c.full % 2 ^ c.lp) * 2 ^ c.lc + dict_get(c, 0) \div 2 ^ (8 - c.lc)

is_literal_state(state) == state < 7

\* update_literal, update_match, update_long_rep, update_short_rep
update_literal(state) ==
    IF state <= 3 THEN 0 ELSE IF state <= 9 THEN state - 3 ELSE state - 6
update_match(state) == IF is_literal_state(state) THEN 7 ELSE 10
update_long_rep(state) == IF is_literal_state(state) THEN 8 ELSE 11
update_short_rep(state) == IF is_literal_state(state) THEN 9 ELSE 11

\* a literal: the byte is decoded, with the match byte after a match, and
\* put into the dictionary
literal_coded(c) ==
    IF c.end # "" THEN c
    ELSE dict_put([c EXCEPT !.state = update_literal(c.state)], c.val)

literal(data, c) ==
    literal_coded(
        IF is_literal_state(c.state)
        THEN rc_bittree(data, c, "literal", literal_subcoder(c), 1, 256)
        ELSE literal_matched(data, c, literal_subcoder(c), 1, 256,
                             2 * dict_get(c, c.rep0)))

\* len_decode with the length decoder name (match_len or rep_len)
len_choice2(data, c, name, pos_state) ==
    IF c.end # "" THEN c
    ELSE IF c.bit = 0
    THEN LET s == rc_bittree(data, c, name \o "_mid", pos_state, 1, 8)
         IN [s EXCEPT !.val = s.val + 10]
    ELSE LET s == rc_bittree(data, c, name \o "_high", 0, 1, 256)
         IN [s EXCEPT !.val = s.val + 18]

len_choice(data, c, name, pos_state) ==
    IF c.end # "" THEN c
    ELSE IF c.bit = 0
    THEN LET s == rc_bittree(data, c, name \o "_low", pos_state, 1, 8)
         IN [s EXCEPT !.val = s.val + 2]
    ELSE len_choice2(data, rc_bit(data, c, <<name \o "_choice2", 0, 0>>),
                     name, pos_state)

len_decode(data, c, name, pos_state) ==
    len_choice(data, rc_bit(data, c, <<name \o "_choice", 0, 0>>), name,
               pos_state)

get_dist_state(len) == IF len < 6 THEN len - 2 ELSE 3

\* the low bits of a distance whose slot is symbol >= DIST_MODEL_START:
\* by pos_special below DIST_MODEL_END, else direct bits and pos_align
dist_aligned(data, c) ==
    IF c.end # "" THEN c
    ELSE LET a == rc_reverse(data, c, "pos_align", 0, 1, 0, 4, 0)
         IN IF a.end # "" THEN a
            ELSE [a EXCEPT !.val = Capped(16 * c.val + a.val)]

dist_low(data, c, symbol, limit, rep0) ==
    IF symbol < 14
    THEN rc_reverse(data, c, "pos_special", rep0 * 2 ^ limit - symbol - 1,
                    1, 0, limit, rep0 * 2 ^ limit)
    ELSE dist_aligned(data, rc_directs(data, c, rep0, limit - 4))

\* the distance of a match from its slot c.val
dist_decoded(data, c) ==
    IF c.end # "" THEN c
    ELSE IF c.val < 4 THEN c
    ELSE dist_low(data, c, c.val, c.val \div 2 - 1, 2 + (c.val % 2))

\* a match that is no repeated match: state, reps, length, distance (which
\* is validated), copy
match_distance(c, len) ==
    IF c.end # "" THEN c
    ELSE IF ~dict_is_distance_valid(c, c.val) THEN Stop(c, "corrupt")
    ELSE dict_repeat([c EXCEPT !.rep0 = c.val], c.val, len)

match_len(data, c) ==
    IF c.end # "" THEN c
    ELSE match_distance(
             dist_decoded(data, rc_bittree(data, c, "dist_slot",
                                           get_dist_state(c.val), 1, 64)),
             c.val)

simple_match(data, c, pos_state) ==
    match_len(data,
              len_decode(data,
                         [c EXCEPT !.state = update_match(c.state),
                                   !.rep3 = c.rep2, !.rep2 = c.rep1,
                                   !.rep1 = c.rep0],
                         "match_len", pos_state))

\* a repeated match of more than one byte at distance c.rep0
long_rep_len(c) ==
    IF c.end # "" THEN c ELSE dict_repeat(c, c.rep0, c.val)

long_rep(data, c, pos_state) ==
    long_rep_len(len_decode(data,
                            [c EXCEPT !.state = update_long_rep(c.state)],
                            "rep_len", pos_state))

\* is_rep2 is decoded: the distance is rep2 or rep3
rep2_decoded(data, c, pos_state) ==
    IF c.end # "" THEN c
    ELSE IF c.bit = 0
    THEN long_rep(data, [c EXCEPT !.rep0 = c.rep2, !.rep1 = c.rep0,
                                  !.rep2 = c.rep1], pos_state)
    ELSE long_rep(data, [c EXCEPT !.rep0 = c.rep3, !.rep1 = c.rep0,
                                  !.rep2 = c.rep1, !.rep3 = c.rep2],
                  pos_state)

\* is_rep1 is decoded: the distance is rep1, or one of rep2 and rep3
rep1_decoded(data, c, state, pos_state) ==
    IF c.end # "" THEN c
    ELSE IF c.bit = 0
    THEN long_rep(data, [c EXCEPT !.rep0 = c.rep1, !.rep1 = c.rep0],
                  pos_state)
    ELSE rep2_decoded(data, rc_bit(data, c, <<"is_rep2", state, 0>>),
                      pos_state)

\* is_rep0_long is decoded: one byte at distance rep0 (a short rep), or a
\* longer match there
rep0_long_decoded(data, c, pos_state) ==
    IF c.end # "" THEN c
    ELSE IF c.bit = 0
    THEN dict_put([c EXCEPT !.state = update_short_rep(c.state)],
                  dict_get(c, c.rep0))
    ELSE long_rep(data, c, pos_state)

\* is_rep0 is decoded
rep0_decoded(data, c, state, pos_state) ==
    IF c.end # "" THEN c
    ELSE IF c.bit = 0
    THEN rep0_long_decoded(
             data, rc_bit(data, c, <<"is_rep0_long", state, pos_state>>),
             pos_state)
    ELSE rep1_decoded(data, rc_bit(data, c, <<"is_rep1", state, 0>>),
                      state, pos_state)

\* is_rep is decoded: a match with a new distance, or a repeated match,
\* which there cannot be in an empty dictionary
rep_decoded(data, c, state, pos_state) ==
    IF c.end # "" THEN c
    ELSE IF c.bit = 0 THEN simple_match(data, c, pos_state)
    ELSE IF ~dict_is_distance_valid(c, 0) THEN Stop(c, "corrupt")
    ELSE rep0_decoded(data, rc_bit(data, c, <<"is_rep0", state, 0>>),
                      state, pos_state)

\* is_match is decoded: a literal or a match
match_decoded(data, c, state, pos_state) ==
    IF c.end # "" THEN c
    ELSE IF c.bit = 0 THEN literal(data, c)
    ELSE rep_decoded(data, rc_bit(data, c, <<"is_rep", state, 0>>),
                     state, pos_state)

\* lzma_decode, one turn of the main loop: a literal or a match, unless the
\* chunk has its uncompressed size or the coder stopped
lzma_symbol(data, c) ==
    IF c.end # "" \/ c.uncompressed_size = 0 THEN c
    ELSE match_decoded(data,
                       rc_bit(data, c, <<"is_match", c.state,
                                         c.full % 2 ^ c.pb>>),
                       c.state, c.full % 2 ^ c.pb)

\* turns of the main loop, at most n of them
RECURSIVE lzma_symbols(_, _, _)
lzma_symbols(data, c, n) ==
    IF c.end # "" \/ c.uncompressed_size = 0 THEN c
    ELSE IF n = 1 THEN lzma_symbol(data, c)
    ELSE lzma_symbols(data, lzma_symbols(data, c, n \div 2), n - n \div 2)

\* lzma_decode, the main loop: every turn puts a byte at least, so that
\* the chunk is full after uncompressed_size turns at most
lzma_decode(data, c) == lzma_symbols(data, c, c.uncompressed_size)

\* the end of lzma_decode: rc_normalize, and rc_is_finished (code = 0)
lzma_finished(n) ==
    IF n.end = "" /\ n.code # <<0, 0>> THEN Stop(n, "corrupt") ELSE n

\* lzma_decoder_reset: state, reps and every probability
lzma_decoder_reset(c) ==
    [c EXCEPT !.state = 0, !.rep0 = 0, !.rep1 = 0, !.rep2 = 0, !.rep3 = 0,
              !.probs = <<>>]

\* lzma2_decode, SEQ_LZMA: the chunk is decoded from a range decoder that
\* is reset; the decoder must have used lzma_size bytes, no more and,
\* at the end of the chunk, no less
lzma_chunk_used(c, in_used, lzma_size) ==
    IF in_used > lzma_size THEN Stop(c, "corrupt")
    ELSE IF c.end # "" THEN c
    ELSE IF in_used # lzma_size THEN Stop(c, "corrupt")
    ELSE c

lzma_chunk_end(c, in_start, lzma_size) ==
    lzma_chunk_used(c, c.pos - in_start, lzma_size)

lzma_chunk(data, c, lzma_size) ==
    lzma_chunk_end(
        lzma_finished(
            rc_normalize(data,
                lzma_decode(data,
                    rc_read_init(data,
                                 [c EXCEPT !.range = <<65535, 65535>>,
                                           !.code = <<0, 0>>], 5)))),
        c.pos, lzma_size)

\* lzma_lzma_lclppb_decode
lclppb_decode(c, byte) ==
    IF byte > 224 \/ ((byte % 45) % 9) + ((byte % 45) \div 9) > 4
    THEN Stop(c, "corrupt")
    ELSE [c EXCEPT !.pb = byte \div 45, !.lp = (byte % 45) \div 9,
                   !.lc = (byte % 45) % 9]

\* the coder of a new decoder; started: the dictionary was reset
lzma2_coder(pos, out, started) ==
    [range |-> <<65535, 65535>>, code |-> <<0, 0>>, pos |-> pos,
     probs |-> <<>>, bit |-> 0, val |-> 0, end |-> "",
     state |-> 0, rep0 |-> 0, rep1 |-> 0, rep2 |-> 0, rep3 |-> 0,
     lc |-> 0, lp |-> 0, pb |-> 0, uncompressed_size |-> 0,
     need_properties |-> TRUE, need_dictionary_reset |-> ~started,
     out |-> out, full |-> Len(out)]

\* lzma2_decode, SEQ_CONTROL: the control byte sets what the chunk needs;
\* a dictionary reset asks the next LZMA chunk for properties
lzma2_control(c, control) ==
    LET r == IF control >= 224 \/ control = 1
             THEN [c EXCEPT !.need_properties = TRUE,
                            !.need_dictionary_reset = TRUE]
             ELSE c
        n == IF control >= 192 THEN [r EXCEPT !.need_properties = FALSE]
             ELSE IF control >= 160 THEN lzma_decoder_reset(r)
             ELSE r
    IN IF r.need_dictionary_reset /\ ~(control >= 224 \/ control = 1)
       THEN Stop(c, "corrupt")
       ELSE IF control >= 128 /\ control < 192 /\ r.need_properties
       THEN Stop(c, "corrupt")
       ELSE IF control < 128 /\ control > 2 THEN Stop(c, "corrupt")
       ELSE IF n.need_dictionary_reset
       THEN [n EXCEPT !.need_dictionary_reset = FALSE, !.full = 0]
       ELSE n

\* SEQ_PROPERTIES of a chunk with new properties, then SEQ_LZMA
lzma2_properties(data, c, control, lzma_size) ==
    IF control < 192 THEN lzma_chunk(data, c, lzma_size)
    ELSE IF c.pos >= Len(data) THEN Stop(c, "more")
    ELSE LET p == lclppb_decode([c EXCEPT !.pos = c.pos + 1],
                                At(data, c.pos))
         IN IF p.end # "" THEN p
            ELSE lzma_chunk(data, lzma_decoder_reset(p), lzma_size)

\* the chunk after its control byte: the sizes, then the bytes of an
\* uncompressed chunk (SEQ_COPY) or the LZMA chunk
lzma2_chunk(data, c, control) ==
    IF c.end # "" THEN c
    ELSE IF control < 128
    THEN IF c.pos + 1 >= Len(data) THEN Stop(c, "more")
         ELSE LET n == At(data, c.pos) * 256 + At(data, c.pos + 1) + 1
              IN IF c.pos + 2 + n > Len(data) THEN Stop(c, "more")
                 ELSE [c EXCEPT !.pos = c.pos + 2 + n,
                                !.full = c.full + n,
                                !.out = c.out \o SubSeq(data, c.pos + 3,
                                                        c.pos + 2 + n)]
    ELSE IF c.pos + 3 >= Len(data) THEN Stop(c, "more")
    ELSE lzma2_properties(
             data,
             [c EXCEPT !.pos = c.pos + 4,
                       !.uncompressed_size =
                           (control % 32) * 65536 + At(data, c.pos) * 256
                               + At(data, c.pos + 1) + 1],
             control,
             At(data, c.pos + 2) * 256 + At(data, c.pos + 3) + 1)

\* lzma2_decode: one chunk after the other up to the end marker
RECURSIVE lzma2_decode(_, _)
lzma2_decode(data, c) ==
    IF c.end # "" THEN c
    ELSE IF c.pos >= Len(data) THEN Stop(c, "more")
    ELSE IF At(data, c.pos) = 0
    THEN [c EXCEPT !.end = "eof", !.pos = c.pos + 1]
    ELSE lzma2_decode(
             data,
             lzma2_chunk(data,
                         lzma2_control([c EXCEPT !.pos = c.pos + 1],
                                       At(data, c.pos)),
                         At(data, c.pos)))

\* what one decompressor makes of the bytes from pos on
Lzma2End(c) == [end |-> c.end, out |-> c.out, pos |-> c.pos]

Lzma2Chunks(data, pos, out, started) ==
    Lzma2End(lzma2_decode(data, lzma2_coder(pos, out, started)))

\* lzma.decompress: one stream after the other until the data is used up;
\* what follows a complete stream and does not decode is dropped
RECURSIVE DecompressFrom(_, _, _, _)
Decompressed(data, out, some, c) ==
    IF c.end = "corrupt"
    THEN IF some THEN [exc |-> "", data |-> out]
         ELSE [exc |-> "LZMAError", data |-> <<>>]
    ELSE IF c.end = "more" THEN [exc |-> "LZMAError", data |-> <<>>]
    ELSE IF c.pos >= Len(data) THEN [exc |-> "", data |-> out \o c.out]
    ELSE DecompressFrom(data, c.pos, out \o c.out, TRUE)

DecompressFrom(data, pos, out, some) ==
    Decompressed(data, out, some, Lzma2Chunks(data, pos, <<>>, FALSE))

Decompress(data) == DecompressFrom(data, 0, <<>>, FALSE)

\* a call that raised exc, leaving the block b and the heap h; io is the
\* number of reads of the source it made
Raised(exc, b, h, io) ==
    [exc |-> exc, ret |-> None, blk |-> b, heap |-> h, io |-> io]

\* compressed_data once the bytes are read: the assert, the new XZBytes
\* object and the weak reference to it.  c is the result of compressed_size.
CompressedRead(b, h, c, data) ==
    IF Len(data) # c.val THEN Raised("AssertionError", c.blk, h, 1)
    ELSE [exc |-> "", ret |-> Some(Len(h) + 1),
          blk |-> [c.blk EXCEPT !.compressed_data = Some(Len(h) + 1)],
          heap |-> Append(h, NewBytes("c", data)), io |-> 1]

\* compressed_data inside the with statement, c the result of
\* self.compressed_size (the argument of read)
CompressedFetch(s, b, h, c) ==
    IF c.exc # "" THEN Raised(c.exc, c.blk, h, 0)
    ELSE CompressedRead(b, h, c,
                        ReadAt(s, b.offset + b.header_length, c.val))

\* XZBlock.compressed_data on the source s with the heap h: the object
\* returned (ret), the block and the heap afterwards
compressed_data(s, b, h) ==
    IF Gone(h, b.compressed_data)
    THEN CompressedFetch(s, b, h, compressed_size(b))
    ELSE [exc |-> "", ret |-> b.compressed_data, blk |-> b, heap |-> h,
          io |-> 0]

\* uncompressed_data once the bytes are decoded (d) and
\* self.uncompressed_size is evaluated (u): the assert, the new object
UncompressedMade(h, io, d, u) ==
    IF u.exc # "" THEN Raised(u.exc, u.blk, h, io)
    ELSE IF Len(d.data) # u.val THEN Raised("AssertionError", u.blk, h, io)
    ELSE [exc |-> "", ret |-> Some(Len(h) + 1),
          blk |-> [u.blk EXCEPT !.uncompressed_data = Some(Len(h) + 1)],
          heap |-> Append(h, NewBytes("u", d.data)), io |-> io]

\* uncompressed_data once lzma.decompress has run (d) on the bytes of the
\* object cd.ret
UncompressedDecoded(cd, d) ==
    IF d.exc # "" THEN Raised(d.exc, cd.blk, cd.heap, cd.io)
    ELSE UncompressedMade(cd.heap, cd.io, d, uncompressed_size(cd.blk))

\* uncompressed_data once self.compressed_data is evaluated (cd)
UncompressedFrom(cd) ==
    IF cd.exc # "" THEN cd
    ELSE UncompressedDecoded(cd, Decompress(cd.heap[Val(cd.ret)].data))

\* XZBlock.uncompressed_data
uncompressed_data(s, b, h) ==
    IF Gone(h, b.uncompressed_data)
    THEN UncompressedFrom(compressed_data(s, b, h))
    ELSE [exc |-> "", ret |-> b.uncompressed_data, blk |-> b, heap |-> h,
          io |-> 0]

----------------------------------------------------------------------------
(* XZFile *)

\* CHECK_SIZE: lzma.CHECK_CRC32 = 1, CHECK_CRC64 = 4, CHECK_SHA256 = 10
CHECK_SIZE == (1 :> 4) @@ (4 :> 8) @@ (10 :> 32)

\* XZFile.__init__ once the stream header is read: b is the result of
\* constructing the first block, with no file_lock argument
FileOf(cs, b) ==
    IF b.exc # "" THEN [exc |-> b.exc]
    ELSE [exc |-> "", check_size |-> cs, block_index |-> <<b.blk>>,
          block_max |-> None]

\* XZFile.__init__ on the source s
XZFile_init(s) ==
    IF Len(ReadAt(s, 0, STREAM_HEADER_LENGTH)) < 8
    THEN [exc |-> "IndexError"]
    ELSE IF LowNibble(At(s, 7)) \notin DOMAIN CHECK_SIZE
    THEN [exc |-> "KeyError"]
    ELSE FileOf(CHECK_SIZE[LowNibble(At(s, 7))],
                XZBlock_init(s, STREAM_HEADER_LENGTH,
                             CHECK_SIZE[LowNibble(At(s, 7))], None, TRUE))

\* XZFile._get_block_at
get_block_at(s, cs, offset, io_ok) ==
    XZBlock_init(s, offset, cs, Some(FileLock), io_ok)

\* The offset get_block constructs the next block at: the end_offset of
\* the last entry of the index
NextOffset(b) == end_offset(b)

\* XZFile.get_block(n), the while loop from i on.  index is the list (a
\* Python index k is k + 1 here), max the value of _block_max, built the
\* number of blocks this call has tried to construct so far; the fail_at-th
\* construction of the call meets an OSError (0: none does).
\* GetBlockLoop is the loop test and the return, Extend the body once
\* next_offset is evaluated (e), Extended the try statement once the
\* constructor has run (c).
RECURSIVE GetBlockLoop(_, _, _, _, _, _, _, _)
RECURSIVE Extend(_, _, _, _, _, _, _, _, _)
RECURSIVE Extended(_, _, _, _, _, _, _, _, _, _)

\* Faulty variant of Extended: the handler catches every exception, so any failed
\* construction fixes _block_max
Extended_CatchAll(s, cs, index1, max, i, n, fail_at, built, at, c) ==
    IF c.exc # ""
    THEN [exc |-> c.exc, why |-> c.why, index |-> index1,
          max |-> Some(i - 1), built |-> built, at |-> Some(at)]
    ELSE GetBlockLoop(s, cs, Append(index1, c.blk), max, i + 1, n,
                      fail_at, built)

Extended(s, cs, index1, max, i, n, fail_at, built, at, c) ==
    IF c.exc = "IndexError"
    THEN [exc |-> c.exc, why |-> c.why, index |-> index1,
          max |-> Some(i - 1), built |-> built, at |-> Some(at)]
    ELSE IF c.exc # ""
    THEN [exc |-> c.exc, why |-> c.why, index |-> index1,
          max |-> max, built |-> built, at |-> Some(at)]
    ELSE GetBlockLoop(s, cs, Append(index1, c.blk), max, i + 1, n,
                      fail_at, built)

Extend(s, cs, index, max, i, n, fail_at, built, e) ==
    IF e.exc # ""
    THEN [exc |-> e.exc, why |-> "end_offset", index |-> index,
          max |-> max, built |-> built, at |-> None]
    ELSE Extended(s, cs, [index EXCEPT ![i] = e.blk], max, i, n, fail_at,
                  built + 1, e.val,
                  get_block_at(s, cs, e.val, built + 1 # fail_at))

\* Faulty variant of GetBlockLoop: next_offset is taken from the first entry of
\* the index, not from the last
GetBlockLoop_FirstEntry(s, cs, index, max, i, n, fail_at, built) ==
    IF i <= n /\ max = None
    THEN Extend(s, cs, index, max, i, n, fail_at, built,
                NextOffset(index[1]))
    ELSE [exc |-> IF n < Len(index) THEN "" ELSE "IndexError",
          why |-> IF n < Len(index) THEN "" ELSE "subscript",
          index |-> index, max |-> max, built |-> built, at |-> None]

\* Faulty variant of GetBlockLoop: the loop does not test _block_max
GetBlockLoop_NoSealTest(s, cs, index, max, i, n, fail_at, built) ==
    IF i <= n
    THEN Extend(s, cs, index, max, i, n, fail_at, built,
                NextOffset(index[i]))
    ELSE [exc |-> IF n < Len(index) THEN "" ELSE "IndexError",
          why |-> IF n < Len(index) THEN "" ELSE "subscript",
          index |-> index, max |-> max, built |-> built, at |-> None]

GetBlockLoop(s, cs, index, max, i, n, fail_at, built) ==
    IF i <= n /\ max = None
    THEN Extend(s, cs, index, max, i, n, fail_at, built,
                NextOffset(index[i]))
    ELSE [exc |-> IF n < Len(index) THEN "" ELSE "IndexError",
          why |-> IF n < Len(index) THEN "" ELSE "subscript",
          index |-> index, max |-> max, built |-> built, at |-> None]

\* XZFile.get_block(n) for n >= 0
get_block(s, cs, index, max, n, fail_at, built) ==
    GetBlockLoop(s, cs, index, max, Len(index), n, fail_at, built)

\* XZFile.block_count(): the while loop; an IndexError of get_block ends
\* it, any other exception leaves it.  Counted is the try statement once
\* get_block has run (g).
RECURSIVE BlockCountLoop(_, _, _, _, _, _)
RECURSIVE Counted(_, _, _, _)

Counted(s, cs, fail_at, g) ==
    IF g.exc = "IndexError" THEN [g EXCEPT !.exc = ""]
    ELSE IF g.exc # "" THEN g
    ELSE BlockCountLoop(s, cs, g.index, g.max, fail_at, g.built)

BlockCountLoop(s, cs, index, max, fail_at, built) ==
    IF max = None
    THEN Counted(s, cs, fail_at,
                 get_block(s, cs, index, max, Len(index), fail_at, built))
    ELSE [exc |-> "", why |-> "", index |-> index, max |-> max,
          built |-> built, at |-> None]

\* Faulty variant of block_count: the count is computed anew on every call
block_count_Recount(s, cs, index, max, fail_at) ==
    BlockCountLoop(s, cs, index, None, fail_at, 0)

block_count(s, cs, index, max, fail_at) ==
    BlockCountLoop(s, cs, index, max, fail_at, 0)

----------------------------------------------------------------------------
(* Sources: the byte layout of an XZ stream, to generate the inputs *)

\* The continuation-bit encoding of v: 7 bits a byte, low group first, the
\* high bit set on every byte but the last
RECURSIVE EncodeSize(_)
EncodeSize(v) ==
    IF v < 128 THEN <<v>> ELSE <<128 + (v % 128)>> \o EncodeSize(v \div 128)

\* the four bytes of a CRC32 (never verified by the program)
CrcBytes == <<195, 165, 150, 231>>

\* the LZMA2 filter entry of a block header: id 0x21, one property byte
FilterBytes == <<33, 1, 22>>

\* A block header: the size byte, the flags, the bytes body that follow
\* them, zero padding to a multiple of 4, the CRC32
HeaderBytes(flags, body) ==
    LET used == 2 + Len(body)
        padded == Padded(used)
    IN <<padded \div 4>> \o <<flags>> \o body \o Rep(0, padded - used)
       \o CrcBytes

\* block flags: both sizes present, one filter
BothSizes == 192

\* A whole block: header, payload of csize bytes, padding, check
BlockBytes(flags, body, csize, cs) ==
    HeaderBytes(flags, body) \o Rep(85, csize)
    \o Rep(0, Padded(csize) - csize) \o Rep(119, cs)

\* The stream header: magic, stream flags (check type in byte 7), CRC32
StreamHeaderBytes(check_type) ==
    <<253, 55, 122, 88, 90, 0>> \o <<0, check_type>> \o CrcBytes

\* The index record and the stream footer that follow n blocks
IndexBytes(n) ==
    <<0, n>> \o Rep(0, 2) \o CrcBytes \o CrcBytes \o Rep(0, 4)
    \o <<0, 1, 89, 90>>

----------------------------------------------------------------------------
(* Values the variables of a part that a specification leaves out hold *)

NoCall == [op |-> "none"]
NoBlock == [offset |-> 0]
NoDec == [calls |-> 0]
NoAcc == [op |-> "none"]

FileIdle ==
    /\ src = <<>> /\ stream = [kind |-> "none"] /\ check_size = 0
    /\ block_index = <<>> /\ block_max = None
    /\ last = NoCall /\ hist = NoCall
BlockIdle == acc = NoAcc /\ heap = <<>>
DecoderIdle == blk = NoBlock /\ dec = NoDec /\ BlockIdle
ThreadsIdle ==
    fp_pos = 0 /\ fp_by = <<>> /\ locks = <<>> /\ th = <<>> /\ torn = None

fileVars == <<src, stream, check_size, block_index, block_max, last, hist>>
decVars == <<blk, dec, acc, heap>>
thVars == <<fp_pos, fp_by, locks, th, torn>>

----------------------------------------------------------------------------
(* The streams the specifications start from *)

\* <<compressed size, uncompressed size>> of the blocks of a stream: sizes
\* encoded in one byte each, and sizes encoded in two bytes each
BlockSizes == {<<16, 64>>, <<130, 300>>}

\* what ends a stream: the index record, the end of the file right after
\* the last block, or a block header cut after 1 or 2 bytes
Tails == {"index", "eof", "cut1", "cut2"}

\* a last block that is not well formed: flags without the size bits, a
\* zero byte in the compressed-size field, a compressed-size field that
\* runs to the end of the header
BadForms == {"nosize", "null", "overrun"}

\* the bytes of a block of the given form
FormBytes(form, sizes, cs) ==
    CASE form = "ok" ->
           BlockBytes(BothSizes,
                      EncodeSize(sizes[1]) \o EncodeSize(sizes[2])
                      \o FilterBytes, sizes[1], cs)
      [] form = "nosize" -> BlockBytes(0, FilterBytes, sizes[1], cs)
      [] form = "null" -> BlockBytes(BothSizes, <<129, 0>>, sizes[1], cs)
      [] form = "overrun" -> BlockBytes(BothSizes, <<129, 129>>, sizes[1], cs)

TailBytes(tail, n) ==
    CASE tail = "index" -> IndexBytes(n)
      [] tail = "eof" -> <<>>
      [] tail = "cut1" -> <<2>>
      [] tail = "cut2" -> <<2, BothSizes>>

RECURSIVE Concat(_)
Concat(ss) == IF Len(ss) = 0 THEN <<>> ELSE ss[1] \o Concat(Tail(ss))

\* A stream layout: the check type, the sizes of its well-formed blocks,
\* the form of one more block ("" when there is none), and the tail
Layout(check_type, blocks, bad, tail) ==
    [kind |-> "stream", check_type |-> check_type, blocks |-> blocks,
     bad |-> bad, tail |-> tail]

\* the bytes of the source a layout describes
SourceBytes(l) ==
    LET cs == CHECK_SIZE[l.check_type]
        n == Len(l.blocks)
    IN StreamHeaderBytes(l.check_type)
       \o Concat([k \in 1..n |-> FormBytes("ok", l.blocks[k], cs)])
       \o (IF l.bad = "" THEN <<>> ELSE FormBytes(l.bad, <<16, 64>>, cs))
       \o TailBytes(l.tail, n)

\* sequences of block sizes of length 1..n
RECURSIVE BlockSeqs(_)
BlockSeqs(n) ==
    IF n = 0 THEN {<<>>}
    ELSE LET shorter == BlockSeqs(n - 1)
         IN shorter \cup {Append(q, z) : q \in {r \in shorter : Len(r) = n - 1},
                                          z \in BlockSizes}

\* The layouts: well-formed streams of 1..MaxBlocks blocks with each check
\* type, and CRC32 streams that end early or hold a bad block
Layouts ==
    LET seqs == BlockSeqs(MaxBlocks) \ {<<>>}
    IN {Layout(ct, q, "", "index") : ct \in {1, 4}, q \in seqs}
       \cup {Layout(1, q, "", t) : q \in seqs, t \in Tails \ {"index"}}
       \cup {Layout(1, q, f, "index") :
                q \in {r \in seqs : Len(r) < MaxBlocks}, f \in BadForms}

\* a layout is well formed: N >= 1 good blocks, then the index record
WellFormed(l) == l.bad = "" /\ l.tail = "index"

\* the number N of blocks of a well-formed layout
NumBlocks(l) == Len(l.blocks)

\* the offset in the source at which block k (from 0) of the layout starts;
\* for k = N, the offset of what follows the last block
RECURSIVE TrueOffset(_, _)
TrueOffset(l, k) ==
    IF k = 0 THEN STREAM_HEADER_LENGTH
    ELSE TrueOffset(l, k - 1)
         + Len(FormBytes("ok", l.blocks[k], CHECK_SIZE[l.check_type]))

----------------------------------------------------------------------------
(* One thread using an XZFile: specification Spec *)

NoHist == [counted |-> FALSE, count_ret |-> None, got_after |-> FALSE,
           sealed_at |-> None, sealed_why |-> ""]

\* the XZFile object f that XZFile.__init__ made of the source of layout l
Constructed(l, f) ==
    /\ f.exc = ""
    /\ stream = l
    /\ src = SourceBytes(l)
    /\ check_size = f.check_size
    /\ block_index = f.block_index
    /\ block_max = f.block_max

Init ==
    /\ DecoderIdle /\ ThreadsIdle
    /\ \E l \in Layouts : Constructed(l, XZFile_init(SourceBytes(l)))
    /\ last = NoCall
    /\ hist = NoHist

\* what a finished call leaves in last and hist; r is the result of
\* get_block or block_count, ret the value returned (None when the call
\* raised)
Finish(op, n, fail_at, r, ret) ==
    /\ block_index' = r.index
    /\ block_max' = r.max
    /\ last' = [op |-> op, n |-> n, fail_at |-> fail_at, exc |-> r.exc,
                why |-> r.why, ret |-> ret, built |-> r.built, at |-> r.at,
                pre_index |-> block_index, pre_max |-> block_max,
                pre_hist |-> hist]
    /\ hist' = [counted |-> hist.counted \/ (op = "block_count" /\ r.exc = ""),
                count_ret |-> IF ~hist.counted /\ op = "block_count"
                                 /\ r.exc = ""
                              THEN ret ELSE hist.count_ret,
                got_after |-> hist.got_after
                              \/ (hist.counted /\ op = "get_block"),
                sealed_at |-> IF block_max = None /\ r.max # None
                              THEN r.at ELSE hist.sealed_at,
                sealed_why |-> IF block_max = None /\ r.max # None
                               THEN r.why ELSE hist.sealed_why]
    /\ UNCHANGED <<src, stream, check_size, decVars, thVars>>

\* get_block(n) returns the object block_index[n], recorded by its offset
Returned(r, n) == IF r.exc = "" THEN Some(r.index[n + 1].offset) ELSE None
FinishGet(n, fail_at, r) == Finish("get_block", n, fail_at, r, Returned(r, n))

\* block_count() returns _block_max
FinishCount(fail_at, r) ==
    Finish("block_count", 0, fail_at, r, IF r.exc = "" THEN r.max ELSE None)

\* a call of XZFile.get_block(n)
GetBlock(n, fail_at) ==
    FinishGet(n, fail_at,
              get_block(src, check_size, block_index, block_max, n,
                        fail_at, 0))

\* a call of XZFile.block_count()
BlockCount(fail_at) ==
    FinishCount(fail_at,
                block_count(src, check_size, block_index, block_max, fail_at))

\* the construction of a call that an OSError may hit: none, the first, ...
FailAts == 0..MaxIoFail

Next ==
    \/ \E n \in 0..(MaxBlocks + 1), fail_at \in FailAts : GetBlock(n, fail_at)
    \/ \E fail_at \in FailAts : BlockCount(fail_at)

Spec == Init /\ [][Next]_vars

\* the last call ran on a well-formed stream and met no I/O error
OnWellFormed == last.op # "none" /\ WellFormed(stream) /\ last.exc # "OSError"

\* C1: on a well-formed stream of N >= 1 blocks, block_count() returns N.
C1_CountIsN ==
    (OnWellFormed /\ last.op = "block_count")
        => last.ret = Some(NumBlocks(stream))

\* C2: on a stream of N blocks, get_block(n) returns the block at position
\* n of the stream when n < N and raises IndexError when n >= N, on the
\* call that meets the index marker and on every later call.
C2_GetBlock ==
    (OnWellFormed /\ last.op = "get_block")
        => IF last.n < NumBlocks(stream)
           THEN last.exc = "" /\ last.ret = Some(TrueOffset(stream, last.n))
           ELSE last.exc = "IndexError"

\* C6: the index is a gap-free chain: the first entry starts at offset 12,
\* the end_offset of every entry is the offset of the next entry, and once
\* the index is sealed the end_offset of the last entry is the offset at
\* which the construction that sealed it read.
C6_Chain ==
    block_index # <<>> =>
        /\ block_index[1].offset = STREAM_HEADER_LENGTH
        /\ \A k \in 1..(Len(block_index) - 1) :
              /\ end_offset(block_index[k]).exc = ""
              /\ end_offset(block_index[k]).val = block_index[k + 1].offset
        /\ block_max # None =>
              /\ end_offset(block_index[Len(block_index)]).exc = ""
              /\ Some(end_offset(block_index[Len(block_index)]).val)
                   = hist.sealed_at

\* an index of three entries sealed by the index marker
C6_Witness ==
    /\ Len(block_index) = 3 /\ block_max # None
    /\ hist.sealed_why = "marker"

\* C7: once _block_max is set, no call changes it or the index, and no
\* call constructs a block.
C7_SealedAbsorbing ==
    [][block_max # None =>
         /\ block_max' = block_max
         /\ block_index' = block_index
         /\ last'.built = 0]_vars

\* a get_block beyond the index and a block_count, both made when sealed
C7_Witness ==
    /\ last.op = "get_block" /\ last.pre_max # None
    /\ last.n >= Len(block_index)
    /\ hist.counted

\* C8: once block_count() has returned, every later call of it returns the
\* same value, constructs no block (no source I/O) and leaves the index and
\* _block_max as they were, whatever get_block calls came in between.
C8_CountIdempotent ==
    (last.op = "block_count" /\ last.pre_hist.counted) =>
        /\ last.exc = ""
        /\ last.ret = last.pre_hist.count_ret
        /\ last.built = 0
        /\ block_index = last.pre_index
        /\ block_max = last.pre_max

\* a second block_count() after a get_block that followed the first
C8_Witness ==
    /\ last.op = "block_count" /\ last.pre_hist.counted
    /\ last.pre_hist.got_after

\* the last call ended in a failed construction: the index marker, a header
\* without the size bits, an I/O error, or a source that ends at the
\* frontier or inside the header (header[0] on too few bytes)
ConstructionFailed ==
    last.op # "none"
    /\ last.why \in {"marker", "nosize", "io", "eof", "truncated"}

\* C10: a failed construction at the frontier appends nothing: the index
\* has the entries the call had reached before it, the earlier entries are
\* the same objects at the same positions, and unless the failure is the
\* index marker _block_max stays unset (for a header without the size bits
\* and for an I/O error; a source that ends at the frontier raises the
\* marker's IndexError).
C10_FailedConstruction ==
    ConstructionFailed =>
        /\ Len(block_index) = Len(last.pre_index) + last.built - 1
        /\ \A k \in 1..Len(last.pre_index) :
              /\ block_index[k].offset = last.pre_index[k].offset
              /\ block_index[k].header = last.pre_index[k].header
              /\ block_index[k].fp_lock = last.pre_index[k].fp_lock
        /\ last.why \in {"nosize", "io"} => block_max = None

\* a call that appended a block and then failed on a header without the
\* size bits
C10_Witness ==
    /\ ConstructionFailed /\ last.exc = "NotImplementedError"
    /\ last.built = 2 /\ Len(block_index) = Len(last.pre_index) + 1

\* C17: _block_max is set only by a construction that read a size byte
\* 0x00 at the frontier: the end of the source, a truncated header or any
\* other failure of the construction never sets it.
C17_SealedByMarker == block_max # None => hist.sealed_why = "marker"

\* C18: when block_count() returns, _block_max is set and an integer is
\* returned, never None, also when the end_offset of the last entry of the
\* index raised IndexError.
C18_CountIsInteger ==
    (last.op = "block_count" /\ last.exc = "")
        => (last.ret # None /\ block_max # None)

----------------------------------------------------------------------------
(* The size decoder on one block: specification SpecSize *)

\* values whose encodings take one, two, three and four bytes
SizeValues == {0, 1, 16, 64, 127, 128, 130, 300, 16383, 16384, 16385,
               2097152}

\* size fields that are no encoding of two values: a zero byte after a
\* continuation byte, continuation bytes with no low bits, continuation
\* bytes up to the end of the header
RawFields == {<<129, 0>>, <<129, 128, 0, 5>>, <<128, 128, 5, 7>>,
              <<129, 129>>, <<129, 128, 129, 128, 129, 128>>}

\* the most calls of _evaluate_size made on one block
MaxDecodes == 2

\* the block whose header holds the size-field bytes body
BlockOver(body) ==
    XZFile_init(StreamHeaderBytes(1) \o BlockBytes(BothSizes, body, 4, 4)
                \o IndexBytes(1)).block_index[1]

InitSize ==
    /\ FileIdle /\ ThreadsIdle /\ BlockIdle
    /\ \/ \E v1, v2 \in SizeValues :
            /\ blk = BlockOver(EncodeSize(v1) \o EncodeSize(v2)
                               \o FilterBytes)
            /\ dec = [calls |-> 0, input |-> <<v1, v2>>, before |-> 0,
                      exc |-> "", size |-> 0]
       \/ \E f \in RawFields :
            /\ blk = BlockOver(f)
            /\ dec = [calls |-> 0, input |-> <<>>, before |-> 0,
                      exc |-> "", size |-> 0]

\* one call of XZBlock._evaluate_size
Decoded(r) ==
    /\ blk' = r.blk
    /\ dec' = [dec EXCEPT !.calls = @ + 1, !.before = blk.decode_offset,
                          !.exc = r.exc, !.size = r.size]

EvaluateSize ==
    /\ dec.calls < MaxDecodes
    /\ Decoded(evaluate_size(blk))
    /\ UNCHANGED <<fileVars, thVars, acc, heap>>

NextSize == EvaluateSize

SpecSize == InitSize /\ [][NextSize]_vars

\* where the k-th encoded value of input starts in the header
FieldStart(input, k) ==
    IF k = 1 THEN 2 ELSE 2 + Len(EncodeSize(input[1]))

\* the last call decoded from the start of an encoded value
AtEncodedField ==
    /\ dec.calls >= 1 /\ dec.calls <= Len(dec.input)
    /\ dec.before = FieldStart(dec.input, dec.calls)

\* C3: for every value v whose encoding is at the cursor, _evaluate_size
\* returns v and moves the cursor by the length of the encoding, also when
\* the encoding is a single byte (v < 128).
C3_RoundTrip ==
    AtEncodedField =>
        /\ dec.exc = ""
        /\ dec.size = dec.input[dec.calls]
        /\ blk.decode_offset
             = dec.before + Len(EncodeSize(dec.input[dec.calls]))

\* the offset i >= 1 from the cursor of the first byte below 0x80 (high
\* bit clear), 0 when every byte up to the end of the header has it set
FirstStop(h, off) ==
    LET stops == {i \in 1..(Len(h) - 1 - off) : At(h, off + i) < 128}
    IN IF stops = {} THEN 0
       ELSE CHOOSE i \in stops : \A j \in stops : i <= j

\* the field at the cursor has a continuation byte 0x80 before its end
Has0x80(h, off) ==
    \E j \in 1..(Len(h) - 1 - off) :
        /\ At(h, off + j) = 128
        /\ FirstStop(h, off) = 0 \/ j < FirstStop(h, off)

\* the last call started inside the header
DecodedInHeader == dec.calls >= 1 /\ dec.before < Len(blk.header)

\* C9 as stated: a continuation byte 0x80 in the field makes the call fail
\* with ValueError.
C9_Byte0x80Fails ==
    (DecodedInHeader /\ Has0x80(blk.header, dec.before))
        => dec.exc = "ValueError"

\* C9 as amended: the call fails with ValueError exactly when the first
\* byte below 0x80 after the field's first byte is 0x00, and then the
\* cursor stays; a continuation byte 0x80 is passed over: after one, a call
\* that returns has consumed the bytes up to the first byte below 0x80.
C9_ZeroByteFails ==
    DecodedInHeader =>
        LET k == FirstStop(blk.header, dec.before)
        IN /\ dec.exc = "ValueError"
                <=> (k # 0 /\ At(blk.header, dec.before + k) = 0)
           /\ dec.exc = "ValueError" => blk.decode_offset = dec.before
           /\ (Has0x80(blk.header, dec.before) /\ dec.exc = "")
                => blk.decode_offset = dec.before + k + 1

\* a call passed over a continuation byte 0x80 and returned 16385
C9_Witness ==
    /\ DecodedInHeader /\ Has0x80(blk.header, dec.before)
    /\ dec.exc = "" /\ dec.size = 16385

----------------------------------------------------------------------------
(* Two threads using one XZFile and its blocks: specification SpecThreads. *)
(* A step is one seek, one read, one lock operation, or the statements     *)
(* between two of them.                                                    *)

Threads == {1, 2}

\* the threads that call get_block and block_count, and the threads that
\* read blocks (compressed_data, block_check)
Extenders == {1}
Readers == {2}

\* the most calls one thread makes
MaxThreadCalls == 2

\* the streams the threads work on: two well-formed blocks, CRC32 checks;
\* the size fields take two bytes each
ThreadLayouts == {Layout(1, <<a, a>>, "", "index") : a \in {<<130, 300>>}}

\* The local state of a thread.  pc is its position and op the operation
\* it runs; n, i and bc are get_block's n and i and whether block_count
\* called it; off is the offset under construction, exp the position its
\* seek and reads left the cursor at, first the first header byte read, blk
\* the block constructed; k is the index entry whose attributes the thread
\* works on and exc the exception a read operation raised.  Inside a size
\* accessor: at is the place the accessor was asked from, nr the number of
\* the read of self.compressed_size inside compressed_size_padded, v1 and
\* v2 the values of the reads before; g and ei are the 7-bit groups of the
\* accumulator and the counter i of _evaluate_size, size the value it
\* returns; v is the value an accessor returned.  data are the bytes read
\* or decoded, obj the object a local variable holds, tmp the object a
\* call of a weak reference has just given the thread; has is the object
\* the caller of the thread keeps from its last call (0: no object), calls
\* the number of calls the thread has made.
Idle == [pc |-> "idle", op |-> "", n |-> 0, i |-> 0, bc |-> FALSE,
         off |-> 0, exp |-> 0, first |-> <<>>, blk |-> NoBlock, k |-> 0,
         exc |-> "", at |-> "", nr |-> 0, v1 |-> 0, v2 |-> 0,
         g |-> <<>>, ei |-> 0, size |-> 0, v |-> 0,
         data |-> <<>>, obj |-> 0, tmp |-> 0, has |-> 0, calls |-> 0]

\* ghost of the runs with threads: late, a block was appended to the index
\* when _block_max was already set
NoLate == [late |-> FALSE]

\* The state after XZFile.__init__ on the source of one of the layouts: the
\* cursor is where the read of the first block's header left it
InitOn(layouts) ==
    /\ DecoderIdle
    /\ \E l \in layouts : Constructed(l, XZFile_init(SourceBytes(l)))
    /\ last = NoCall /\ hist = NoLate
    /\ fp_pos = STREAM_HEADER_LENGTH + block_index[1].header_length
    /\ fp_by = <<0, "init">>
    /\ locks = [l \in {FileLock, NewLock(STREAM_HEADER_LENGTH)} |-> 0]
    /\ th = [t \in Threads |-> Idle]
    /\ torn = None

InitThreads == InitOn(ThreadLayouts)

fixedVars == <<src, stream, check_size, last, decVars>>
xzVars == <<fixedVars, hist>>

\* what no thread changes, what only the operations on objects change
\* (heap), and the state of the source handle and the locks
restVars == <<src, stream, check_size, last, blk, dec, acc, hist>>
ioVars == <<fp_pos, fp_by, locks, torn>>

\* Thread t is at position p.
AtPc(t, p) == th[t].pc = p

\* thread t moves to the local state r; the variable of its caller is not
\* the operation's
Goto(t, r) ==
    th' = [th EXCEPT ![t] = [r EXCEPT !.has = th[t].has,
                                      !.calls = th[t].calls]]

\* thread t, which has calls left, makes a call and is in the local state r
Call(t, r) ==
    /\ th[t].calls < MaxThreadCalls
    /\ th' = [th EXCEPT ![t] = [r EXCEPT !.has = th[t].has,
                                         !.calls = th[t].calls + 1]]

\* the call of thread t returns the object id (0: None) to its caller,
\* which keeps it in the place of the object it had
Bind(t, id) ==
    th' = [th EXCEPT ![t] = [Idle EXCEPT !.has = id, !.calls = th[t].calls]]

\* a step that changes the local state of a thread only; one that also
\* writes an attribute of a block
OnlyLocal == UNCHANGED <<xzVars, block_index, block_max, ioVars>>
OnlyBlock == UNCHANGED <<xzVars, block_max, ioVars>>

\* the block whose attributes thread t works on, and the write of one
BlockOf(t) == block_index[th[t].k]
SetBlock(t, b) == block_index' = [block_index EXCEPT ![th[t].k] = b]

\* the local state r outside the size accessors
Out(r) == [r EXCEPT !.at = "", !.nr = 0, !.v1 = 0, !.v2 = 0,
                    !.g = <<>>, !.ei = 0, !.size = 0]

\* fp.seek(pos) by thread t
Seek(t, pos) == fp_pos' = pos /\ fp_by' = <<t, th[t].op>>

\* fp.read(n) by thread t returning data: the cursor moves past data; the
\* read is torn when the cursor is not where t's own seek and reads left
\* it.  torn keeps the first torn read: the operation that read and the
\* operation that had moved the cursor.
ReadBy(t, data) ==
    /\ fp_pos' = fp_pos + Len(data)
    /\ fp_by' = <<t, th[t].op>>
    /\ torn' = IF fp_pos # th[t].exp /\ torn = None
               THEN Some(<<th[t].op, fp_by[2]>>) ELSE torn

\* get_block raises exc in thread t; inside block_count an IndexError ends
\* the loop and the call returns
Raise(t, exc) == Goto(t, Idle)

\* a read operation of thread t raises exc outside its with statement
Fail(t, exc) == Goto(t, [Idle EXCEPT !.exc = exc])

\* XZFile.get_block(n) is called
CallGetBlock(t, n) ==
    /\ AtPc(t, "idle")
    /\ Call(t, [Idle EXCEPT !.pc = "gb_entry", !.op = "get_block", !.n = n])
    /\ OnlyLocal

\* XZFile.block_count() is called
CallBlockCount(t) ==
    /\ AtPc(t, "idle")
    /\ Call(t, [Idle EXCEPT !.pc = "bc_test", !.op = "block_count"])
    /\ OnlyLocal

\* the calls of the threads that extend the index
StartGetBlock(t, n) == t \in Extenders /\ CallGetBlock(t, n)
StartBlockCount(t) == t \in Extenders /\ CallBlockCount(t)

\* block_count: while self._block_max is None; when it is not, return
\* self._block_max
BcTest(t) ==
    /\ AtPc(t, "bc_test")
    /\ IF block_max = None
       THEN Goto(t, [th[t] EXCEPT !.pc = "bc_call"])
       ELSE Goto(t, Idle)
    /\ OnlyLocal

\* block_count: self.get_block(len(self._block_index)) is called
BcCall(t) ==
    /\ AtPc(t, "bc_call")
    /\ Goto(t, [Idle EXCEPT !.pc = "gb_entry", !.op = "block_count",
                            !.n = Len(block_index), !.bc = TRUE])
    /\ OnlyLocal

\* get_block: i = len(self._block_index)
GbEntry(t) ==
    /\ AtPc(t, "gb_entry")
    /\ Goto(t, [th[t] EXCEPT !.pc = "gb_test", !.i = Len(block_index)])
    /\ OnlyLocal

\* get_block: return self._block_index[n].  Inside block_count the loop of
\* block_count goes on, and an IndexError of the subscript ends it: the
\* call returns self._block_max.
GbReturn(t) ==
    /\ AtPc(t, "gb_ret")
    /\ IF th[t].bc /\ th[t].n < Len(block_index)
       THEN Goto(t, [Idle EXCEPT !.pc = "bc_test", !.op = "block_count"])
       ELSE Goto(t, Idle)
    /\ OnlyLocal

\* get_block: except IndexError: self._block_max = i - 1; raise
GbSeal(t) ==
    /\ AtPc(t, "seal")
    /\ block_max' = Some(th[t].i - 1)
    /\ Raise(t, "IndexError")
    /\ UNCHANGED <<xzVars, block_index, ioVars>>

\* Faulty variant of GbTest: next_offset is the end_offset of the first entry
GbTest_FirstEntry(t) ==
    /\ AtPc(t, "gb_test")
    /\ IF th[t].i <= th[t].n /\ block_max = None
       THEN Goto(t, [th[t] EXCEPT !.pc = "c_test", !.at = "next_offset",
                                  !.nr = 1, !.k = 1])
       ELSE Goto(t, [th[t] EXCEPT !.pc = "gb_ret"])
    /\ OnlyLocal

\* get_block: the test of its while loop; then the end_offset of entry
\* i - 1 is asked for, or the loop is over
GbTest(t) ==
    /\ AtPc(t, "gb_test")
    /\ IF th[t].i <= th[t].n /\ block_max = None
       THEN Goto(t, [th[t] EXCEPT !.pc = "c_test", !.at = "next_offset",
                                  !.nr = 1, !.k = th[t].i])
       ELSE Goto(t, [th[t] EXCEPT !.pc = "gb_ret"])
    /\ OnlyLocal

----------------------------------------------------------------------------
(* The size accessors, a statement at a time.  No lock guards the          *)
(* attributes _decode_offset, _compressed_size and _uncompressed_size:     *)
(* every step reads them as they are when it is taken.                     *)

\* the places the with statement of a read operation encloses
InWith == {"check_seek", "data_read"}

\* an accessor raises exc: inside a with statement the statement is left,
\* in get_block the call ends, elsewhere the read operation ends
SizeRaise(t, exc) ==
    IF th[t].at \in InWith
    THEN Goto(t, Out([th[t] EXCEPT !.pc = "unlock", !.exp = 0, !.v = 0,
                                   !.exc = exc]))
    ELSE IF th[t].at = "next_offset" THEN Raise(t, exc)
    ELSE Fail(t, exc)

\* compressed_size: if not self._compressed_size
SizeTest(t) ==
    /\ AtPc(t, "c_test")
    /\ Goto(t, [th[t] EXCEPT !.pc = IF Not(BlockOf(t).compressed_size)
                                    THEN "ev_first" ELSE "c_ret"])
    /\ OnlyLocal

\* _evaluate_size: size = int(head_data[self._decode_offset]) & 0x7F; i = 0
EvalFirst(t) ==
    /\ AtPc(t, "ev_first")
    /\ IF BlockOf(t).decode_offset >= Len(BlockOf(t).header)
       THEN SizeRaise(t, "IndexError")
       ELSE Goto(t, [th[t] EXCEPT
                       !.pc = "ev_turn", !.ei = 0,
                       !.g = <<Low7(At(BlockOf(t).header,
                                       BlockOf(t).decode_offset))>>])
    /\ OnlyLocal

\* one turn of the loop of _evaluate_size, x the byte at
\* self._decode_offset + i
EvalByte(t, x) ==
    IF x = 0 THEN SizeRaise(t, "ValueError")
    ELSE Goto(t, [th[t] EXCEPT
                    !.pc = IF HighBit(x) THEN "ev_turn" ELSE "ev_adv",
                    !.ei = @ + 1, !.g = Append(@, Low7(x))])

\* _evaluate_size: i += 1; x = int(head_data[self._decode_offset+i]); the
\* test of x, size |= ..., the test that ends the loop
EvalTurn(t) ==
    /\ AtPc(t, "ev_turn")
    /\ IF BlockOf(t).decode_offset + th[t].ei + 1 >= Len(BlockOf(t).header)
       THEN SizeRaise(t, "IndexError")
       ELSE EvalByte(t, At(BlockOf(t).header,
                           BlockOf(t).decode_offset + th[t].ei + 1))
    /\ OnlyLocal

\* _evaluate_size: self._decode_offset += i + 1; return size
EvalAdvance(t) ==
    /\ AtPc(t, "ev_adv")
    /\ SetBlock(t, [BlockOf(t) EXCEPT !.decode_offset = @ + th[t].ei + 1])
    /\ Goto(t, [th[t] EXCEPT
                  !.pc = IF th[t].at = "ud_assert" THEN "u_set" ELSE "c_set",
                  !.size = GroupsValue(th[t].g), !.g = <<>>, !.ei = 0])
    /\ OnlyBlock

\* self._compressed_size = the value _evaluate_size returned
SizeAssign(t) ==
    /\ AtPc(t, "c_set")
    /\ SetBlock(t, [BlockOf(t) EXCEPT !.compressed_size = Some(th[t].size)])
    /\ Goto(t, [th[t] EXCEPT !.pc = "c_ret", !.size = 0])
    /\ OnlyBlock

\* compressed_size_padded has its result p: end_offset adds the offset, the
\* header length and the check size for get_block; block_check seeks
PaddedDone(t, p) ==
    IF th[t].at = "next_offset"
    THEN Goto(t, Out([th[t] EXCEPT
                        !.pc = "init_seek", !.k = 0,
                        !.off = EndOffsetOf(BlockOf(t),
                                            [exc |-> "", val |-> p,
                                             blk |-> BlockOf(t)]).val]))
    ELSE Goto(t, Out([th[t] EXCEPT !.pc = "seek", !.v = p]))

\* compressed_size_padded: self.compressed_size has returned val.  The
\* first read is tested for a multiple of 4; the value returned is made of
\* one more read, or of two.
PaddedRead(t, val) ==
    CASE th[t].nr = 1 ->
           Goto(t, [th[t] EXCEPT !.pc = "c_test", !.nr = 2, !.v1 = val])
      [] th[t].nr = 2 ->
           IF th[t].v1 % 4 = 0 THEN PaddedDone(t, val)
           ELSE Goto(t, [th[t] EXCEPT !.pc = "c_test", !.nr = 3,
                                      !.v2 = val])
      [] th[t].nr = 3 -> PaddedDone(t, th[t].v2 + (4 - (val % 4)))

\* compressed_size has returned val to the place it was asked from: the
\* argument of read, the assert of compressed_data, uncompressed_size, or
\* compressed_size_padded
SizeReturned(t, val) ==
    CASE th[t].at = "data_read" ->
           Goto(t, Out([th[t] EXCEPT !.pc = "read", !.v = val]))
      [] th[t].at = "data_assert" ->
           IF Len(th[t].data) # val THEN Fail(t, "AssertionError")
           ELSE Goto(t, Out([th[t] EXCEPT !.pc = "cd_make"]))
      [] th[t].at = "u_stale" ->
           Goto(t, [th[t] EXCEPT !.pc = "u_stale", !.v = val])
      [] OTHER -> PaddedRead(t, val)

\* compressed_size: return self._compressed_size
SizeReturn(t) ==
    /\ AtPc(t, "c_ret")
    /\ SizeReturned(t, Val(BlockOf(t).compressed_size))
    /\ OnlyLocal

\* uncompressed_size: if not self._uncompressed_size; then
\* self.compressed_size is asked for
USizeTest(t) ==
    /\ AtPc(t, "u_test")
    /\ Goto(t, IF Not(BlockOf(t).uncompressed_size)
               THEN [th[t] EXCEPT !.pc = "c_test", !.at = "u_stale"]
               ELSE [th[t] EXCEPT !.pc = "u_ret"])
    /\ OnlyLocal

\* self._uncompressed_size = self.compressed_size; then _evaluate_size
UStale(t) ==
    /\ AtPc(t, "u_stale")
    /\ SetBlock(t, [BlockOf(t) EXCEPT !.uncompressed_size = Some(th[t].v)])
    /\ Goto(t, [th[t] EXCEPT !.pc = "ev_first", !.at = "ud_assert",
                             !.v = 0])
    /\ OnlyBlock

\* self._uncompressed_size = the value _evaluate_size returned
USizeAssign(t) ==
    /\ AtPc(t, "u_set")
    /\ SetBlock(t, [BlockOf(t) EXCEPT !.uncompressed_size = Some(th[t].size)])
    /\ Goto(t, [th[t] EXCEPT !.pc = "u_ret", !.size = 0])
    /\ OnlyBlock

\* return self._uncompressed_size, to the assert of uncompressed_data
USizeReturn(t) ==
    /\ AtPc(t, "u_ret")
    /\ IF Len(th[t].data) # Val(BlockOf(t).uncompressed_size)
       THEN Fail(t, "AssertionError")
       ELSE Goto(t, Out([th[t] EXCEPT !.pc = "ud_make"]))
    /\ OnlyLocal

----------------------------------------------------------------------------
(* XZBlock.__init__ and the append of get_block *)

\* XZBlock.__init__: self._fp.seek(offset), with no lock held
InitSeek(t) ==
    /\ AtPc(t, "init_seek")
    /\ Seek(t, th[t].off)
    /\ Goto(t, [th[t] EXCEPT !.pc = "init_read1", !.exp = th[t].off])
    /\ UNCHANGED <<xzVars, block_index, block_max, locks, torn>>

\* the constructor raises IndexError in thread t: the handler of get_block
\* is next
Sealing(t) ==
    Goto(t, [th[t] EXCEPT !.pc = "seal", !.off = 0, !.exp = 0,
                          !.first = <<>>])

\* XZBlock.__init__ once the size byte is read (first)
InitFirst(t, first) ==
    /\ ReadBy(t, first)
    /\ IF Len(first) = 0 \/ At(first, 0) = 0
       THEN Sealing(t)
       ELSE Goto(t, [th[t] EXCEPT !.pc = "init_read2", !.first = first,
                                  !.exp = fp_pos + Len(first)])

\* XZBlock.__init__: header = self._fp.read(1)
InitRead1(t) ==
    /\ AtPc(t, "init_read1")
    /\ InitFirst(t, ReadAt(src, fp_pos, 1))
    /\ UNCHANGED <<xzVars, block_index, block_max, locks>>

\* XZBlock.__init__ once the header is read: c is what the constructor
\* does with it
InitDone(t, c) ==
    IF c.exc = "IndexError" THEN Sealing(t)
    ELSE IF c.exc # "" THEN Raise(t, c.exc)
    ELSE Goto(t, [th[t] EXCEPT !.pc = "append", !.blk = c.blk,
                               !.off = 0, !.exp = 0, !.first = <<>>])

\* XZBlock.__init__ once the rest of the header is read (rest)
InitRest(t, rest) ==
    /\ ReadBy(t, rest)
    /\ InitDone(t, BlockOfHeader(th[t].first \o rest,
                                 HeaderLengthOf(th[t].first), th[t].off,
                                 check_size, FileLock))

\* XZBlock.__init__: header += self._fp.read(header_length - 1)
InitRead2(t) ==
    /\ AtPc(t, "init_read2")
    /\ InitRest(t, ReadAt(src, fp_pos, HeaderLengthOf(th[t].first) - 1))
    /\ UNCHANGED <<xzVars, block_index, block_max, locks>>

\* get_block: self._block_index.append(last_block); i += 1
AppendBlock(t) ==
    /\ AtPc(t, "append")
    /\ block_index' = Append(block_index, th[t].blk)
    /\ hist' = [late |-> hist.late \/ block_max # None]
    /\ Goto(t, [th[t] EXCEPT !.pc = "gb_test", !.i = @ + 1,
                             !.blk = NoBlock])
    /\ UNCHANGED <<fixedVars, block_max, fp_pos, fp_by, locks, torn>>

----------------------------------------------------------------------------
(* block_check, compressed_data and uncompressed_data *)

\* the object a weak reference gives when it is called (0: None)
Deref(h, ref) == IF Gone(h, ref) THEN 0 ELSE Val(ref)

\* the heap with one more, one less variable that refers to the object id
Plus(h, id) == IF id = 0 THEN h ELSE [h EXCEPT ![id].owners = @ + 1]
Minus(h, id) == IF id = 0 THEN h ELSE [h EXCEPT ![id].owners = @ - 1]

\* compressed_data and uncompressed_data are called while fewer objects
\* than this have been made
MaxObjects == 3

\* block_check, compressed_data or uncompressed_data is called on the k-th
\* entry of the index (a block object the thread holds)
StartRead(t, op, k) ==
    /\ AtPc(t, "idle")
    /\ k \in 1..Len(block_index)
    /\ op = "block_check" \/ Len(heap) < MaxObjects
    /\ Call(t, [Idle EXCEPT
                  !.pc = CASE op = "block_check" -> "lock"
                           [] op = "compressed_data" -> "cd_test"
                           [] op = "uncompressed_data" -> "ud_test",
                  !.op = op, !.k = k])
    /\ OnlyLocal

\* the weak reference ref is called by thread t, which is at pc next: the
\* thread holds the object the call gave it (0: None), and the object
\* lives while it does
Called(t, ref, pc) ==
    /\ heap' = Plus(heap, Deref(heap, ref))
    /\ Goto(t, [th[t] EXCEPT !.pc = pc, !.tmp = Deref(heap, ref)])

\* thread t lets go of the object the call gave it and goes on at pc
Tested(t, pc) ==
    /\ heap' = Minus(heap, th[t].tmp)
    /\ Goto(t, [th[t] EXCEPT !.pc = pc, !.tmp = 0])

\* the test of a weak reference ref: ref is None, and the body of the if
\* statement (at pc body) is next, or ref is called
TestRef(t, ref, body, pc) ==
    IF ref = None
    THEN Goto(t, [th[t] EXCEPT !.pc = body]) /\ UNCHANGED heap
    ELSE Called(t, ref, pc)

\* compressed_data: if self._compressed_data is None or
\* self._compressed_data() ..., up to the return of the call
CdTest(t) ==
    /\ AtPc(t, "cd_test")
    /\ TestRef(t, BlockOf(t).compressed_data, "lock", "cd_tested")
    /\ UNCHANGED <<restVars, block_index, block_max, ioVars>>

\* compressed_data: ... is None, of the object the call returned
CdTested(t) ==
    /\ AtPc(t, "cd_tested")
    /\ Tested(t, IF th[t].tmp = 0 THEN "lock" ELSE "cd_ret")
    /\ UNCHANGED <<restVars, block_index, block_max, ioVars>>

\* with self._fp_lock: the lock of the block is acquired; block_check
\* evaluates self.compressed_size_padded before it seeks
Acquire(t) ==
    /\ AtPc(t, "lock")
    /\ locks[BlockOf(t).fp_lock] = 0
    /\ locks' = [locks EXCEPT ![BlockOf(t).fp_lock] = t]
    /\ Goto(t, IF th[t].op = "block_check"
               THEN [th[t] EXCEPT !.pc = "c_test", !.at = "check_seek",
                                  !.nr = 1]
               ELSE [th[t] EXCEPT !.pc = "seek"])
    /\ UNCHANGED <<xzVars, block_index, block_max, fp_pos, fp_by, torn>>

\* the position a read operation seeks to: past the header, and for
\* block_check past the padded payload
SeekPos(t) == BlockOf(t).offset + BlockOf(t).header_length + th[t].v

\* self._fp.seek(...) inside the with statement; compressed_data then
\* evaluates self.compressed_size
LockedSeek(t) ==
    /\ AtPc(t, "seek")
    /\ Seek(t, SeekPos(t))
    /\ Goto(t, IF th[t].op = "block_check"
               THEN [th[t] EXCEPT !.pc = "read", !.exp = SeekPos(t),
                                  !.v = 0]
               ELSE [th[t] EXCEPT !.pc = "c_test", !.at = "data_read",
                                  !.exp = SeekPos(t)])
    /\ UNCHANGED <<xzVars, block_index, block_max, locks, torn>>

\* the read of the with statement has returned data
ReadDone(t, data) ==
    /\ ReadBy(t, data)
    /\ Goto(t, [th[t] EXCEPT
                  !.pc = "unlock", !.exp = 0, !.v = 0,
                  !.data = IF th[t].op = "block_check" THEN <<>> ELSE data])

\* self._fp.read(...) inside the with statement
LockedRead(t) ==
    /\ AtPc(t, "read")
    /\ ReadDone(t, ReadAt(src, fp_pos,
                          IF th[t].op = "block_check"
                          THEN BlockOf(t).block_check_size ELSE th[t].v))
    /\ UNCHANGED <<xzVars, block_index, block_max, locks>>

\* self._fp.seek or self._fp.read inside the with statement raises OSError
IoFail(t) ==
    /\ AtPc(t, "seek") \/ AtPc(t, "read")
    /\ Goto(t, [th[t] EXCEPT !.pc = "unlock", !.exp = 0, !.v = 0,
                             !.exc = "OSError"])
    /\ OnlyLocal

\* where thread t goes on when its with statement is left: the exception
\* goes to the caller, block_check returns, compressed_data evaluates
\* self.compressed_size for its assert
AfterWith(t) ==
    IF th[t].exc # "" THEN [Idle EXCEPT !.exc = th[t].exc]
    ELSE IF th[t].op = "block_check" THEN Idle
    ELSE [th[t] EXCEPT !.pc = "c_test", !.at = "data_assert"]

\* Faulty variant of Release: the lock is released only when the body of
\* the with statement raised nothing
Release_OnSuccess(t) ==
    /\ AtPc(t, "unlock")
    /\ locks' = IF th[t].exc = ""
                THEN [locks EXCEPT ![BlockOf(t).fp_lock] = 0]
                ELSE locks
    /\ Goto(t, AfterWith(t))
    /\ UNCHANGED <<xzVars, block_index, block_max, fp_pos, fp_by, torn>>

\* the with statement is left, by its end or by an exception: the lock is
\* released
Release(t) ==
    /\ AtPc(t, "unlock")
    /\ locks' = [locks EXCEPT ![BlockOf(t).fp_lock] = 0]
    /\ Goto(t, AfterWith(t))
    /\ UNCHANGED <<xzVars, block_index, block_max, fp_pos, fp_by, torn>>

\* compressed_data = XZBytes(compressed_data);
\* self._compressed_data = weakref.ref(compressed_data)
CdMake(t) ==
    /\ AtPc(t, "cd_make")
    /\ heap' = Plus(Append(heap, NewBytes("c", th[t].data)), Len(heap) + 1)
    /\ SetBlock(t, [BlockOf(t) EXCEPT
                      !.compressed_data = Some(Len(heap) + 1)])
    /\ Goto(t, [th[t] EXCEPT !.pc = "cd_ret", !.data = <<>>,
                             !.obj = Len(heap) + 1])
    /\ UNCHANGED <<restVars, block_max, ioVars>>

\* compressed_data: return self._compressed_data(), the call of the weak
\* reference
CdTake(t) ==
    /\ AtPc(t, "cd_ret")
    /\ Called(t, BlockOf(t).compressed_data, "cd_took")
    /\ UNCHANGED <<restVars, block_index, block_max, ioVars>>

\* compressed_data: return self._compressed_data(), the return of the
\* object r the call gave.  The local variable lets go of its object; the
\* caller keeps r in the place of what it had, or uncompressed_data takes
\* r.data (None has none) and lets go of r.
CdReturned(t, r) ==
    IF th[t].op = "compressed_data"
    THEN /\ heap' = Minus(Minus(heap, th[t].obj), th[t].has)
         /\ Bind(t, r)
    ELSE /\ heap' = Minus(Minus(heap, th[t].obj), r)
         /\ IF r = 0 THEN Fail(t, "AttributeError")
            ELSE Goto(t, [th[t] EXCEPT !.pc = "ud_decode", !.obj = 0,
                                       !.tmp = 0, !.data = heap[r].data])

CdReturn(t) ==
    /\ AtPc(t, "cd_took")
    /\ CdReturned(t, th[t].tmp)
    /\ UNCHANGED <<restVars, block_index, block_max, ioVars>>

\* uncompressed_data: if self._uncompressed_data is None or
\* self._uncompressed_data() ..., up to the return of the call; in the body
\* of the if statement self.compressed_data is asked for
UdTest(t) ==
    /\ AtPc(t, "ud_test")
    /\ TestRef(t, BlockOf(t).uncompressed_data, "cd_test", "ud_tested")
    /\ UNCHANGED <<restVars, block_index, block_max, ioVars>>

\* uncompressed_data: ... is None, of the object the call returned
UdTested(t) ==
    /\ AtPc(t, "ud_tested")
    /\ Tested(t, IF th[t].tmp = 0 THEN "cd_test" ELSE "ud_ret")
    /\ UNCHANGED <<restVars, block_index, block_max, ioVars>>

\* lzma.decompress has run on the bytes of the compressed object (d);
\* self.uncompressed_size is asked for
UdDecoded(t, d) ==
    IF d.exc # "" THEN Fail(t, d.exc)
    ELSE Goto(t, [th[t] EXCEPT !.pc = "u_test", !.at = "ud_assert",
                               !.data = d.data])

\* uncompressed_data: lzma.decompress(self.compressed_data.data, ...)
UdDecode(t) ==
    /\ AtPc(t, "ud_decode")
    /\ UdDecoded(t, Decompress(th[t].data))
    /\ OnlyLocal

\* uncompressed_data = XZBytes(uncompressed_data);
\* self._uncompressed_data = weakref.ref(uncompressed_data)
UdMake(t) ==
    /\ AtPc(t, "ud_make")
    /\ heap' = Plus(Append(heap, NewBytes("u", th[t].data)), Len(heap) + 1)
    /\ SetBlock(t, [BlockOf(t) EXCEPT
                      !.uncompressed_data = Some(Len(heap) + 1)])
    /\ Goto(t, [th[t] EXCEPT !.pc = "ud_ret", !.data = <<>>,
                             !.obj = Len(heap) + 1])
    /\ UNCHANGED <<restVars, block_max, ioVars>>

\* uncompressed_data: return self._uncompressed_data(), the call of the
\* weak reference
UdTake(t) ==
    /\ AtPc(t, "ud_ret")
    /\ Called(t, BlockOf(t).uncompressed_data, "ud_took")
    /\ UNCHANGED <<restVars, block_index, block_max, ioVars>>

\* uncompressed_data: return self._uncompressed_data(), the return of the
\* object r the call gave: the local variable lets go of its object and
\* the caller keeps r in the place of what it had
UdReturned(t, r) ==
    /\ heap' = Minus(Minus(heap, th[t].obj), th[t].has)
    /\ Bind(t, r)

UdReturn(t) ==
    /\ AtPc(t, "ud_took")
    /\ UdReturned(t, th[t].tmp)
    /\ UNCHANGED <<restVars, block_index, block_max, ioVars>>

\* the caller of thread t lets go of the object it kept
Forget(t) ==
    /\ AtPc(t, "idle") /\ th[t].has # 0
    /\ heap' = Minus(heap, th[t].has)
    /\ th' = [th EXCEPT ![t].has = 0]
    /\ UNCHANGED <<restVars, block_index, block_max, ioVars>>

\* the calls of the threads that read blocks
StartReadOf(t, op, k) == t \in Readers /\ StartRead(t, op, k)

NextThreads ==
    \E t \in Threads :
        \/ \E n \in 0..2 : StartGetBlock(t, n)
        \/ StartBlockCount(t)
        \/ BcTest(t)
        \/ BcCall(t)
        \/ GbEntry(t)
        \/ GbTest(t)
        \/ GbReturn(t)
        \/ GbSeal(t)
        \/ InitSeek(t)
        \/ InitRead1(t)
        \/ InitRead2(t)
        \/ AppendBlock(t)
        \/ \E k \in 1..2 : StartReadOf(t, "compressed_data", k)
        \/ StartReadOf(t, "block_check", 1)
        \/ CdTest(t)
        \/ CdTested(t)
        \/ Acquire(t)
        \/ LockedSeek(t)
        \/ LockedRead(t)
        \/ Release(t)
        \/ SizeTest(t)
        \/ EvalFirst(t)
        \/ EvalTurn(t)
        \/ EvalAdvance(t)
        \/ SizeAssign(t)
        \/ SizeReturn(t)
        \/ CdMake(t)
        \/ CdTake(t)
        \/ CdReturn(t)
        \/ Forget(t)

SpecThreads == InitThreads /\ [][NextThreads]_vars

ExtendOps == {"get_block", "block_count"}
ReadOps == {"compressed_data", "block_check"}

\* C4: with one thread in get_block / block_count and one in
\* compressed_data / block_check, no read is made at a position the other
\* thread set: neither the header reads of a block under construction nor
\* the locked reads are torn.
C4_NoTornRead ==
    torn # None =>
        ~ \/ Val(torn)[1] \in ExtendOps /\ Val(torn)[2] \in ReadOps
          \/ Val(torn)[1] \in ReadOps /\ Val(torn)[2] \in ExtendOps

\* thread t is inside the with statement of a read operation
InSection(t) ==
    \/ th[t].pc \in {"seek", "read", "unlock"}
    \/ th[t].at \in InWith

\* C5: every block of the index guards its reads with the lock of the
\* XZFile, so two threads are never inside the locked reads of two
\* different blocks at once.
C5_NoOverlap ==
    \A t1, t2 \in Threads :
        (t1 # t2 /\ InSection(t1) /\ InSection(t2)) => th[t1].k = th[t2].k

----------------------------------------------------------------------------
(* One XZBlock, constructed and then used by one thread: specification     *)
(* SpecBlock.  The block is at offset 12 of a CRC32 stream.                 *)

\* An LZMA2 stream that decodes to u bytes: one uncompressed chunk (control
\* byte 1, the size less one in two bytes, the bytes) and the end marker
PayloadBytes(u) ==
    <<1, (u - 1) \div 256, (u - 1) % 256>> \o Rep(97, u) \o <<0>>

\* An LZMA2 stream that decodes to 234 bytes of text: one LZMA chunk
\* (control byte 224: new properties, dictionary reset) with literals,
\* matches and repeated matches, and the end marker
LzmaPayload ==
    <<224, 0, 233, 0, 160, 93, 0, 44, 22, 128, 5, 33, 244, 4, 203, 94,
      235, 229, 172, 198, 191, 66, 108, 111, 71, 174, 184, 246, 26, 160,
      197, 192, 46, 170, 182, 244, 28, 66, 55, 0, 95, 115, 130, 168, 92,
      228, 177, 130, 136, 241, 4, 132, 47, 47, 57, 18, 242, 215, 248,
      50, 200, 14, 147, 50, 45, 77, 132, 42, 29, 109, 32, 140, 158, 202,
      29, 130, 66, 145, 129, 176, 126, 88, 194, 37, 31, 217, 229, 79,
      254, 217, 241, 249, 13, 252, 4, 112, 197, 142, 71, 137, 122, 114,
      10, 66, 99, 53, 113, 84, 241, 139, 147, 127, 111, 215, 7, 172,
      104, 165, 18, 168, 194, 149, 237, 240, 89, 157, 10, 193, 122, 168,
      250, 48, 194, 177, 158, 239, 133, 209, 158, 245, 199, 10, 197, 10,
      241, 164, 99, 142, 101, 39, 90, 232, 41, 138, 156, 11, 133, 14,
      64, 234, 196, 141, 204, 4, 251, 50, 98, 0>>

\* A whole block with the given payload
BlockWith(flags, body, payload, cs) ==
    HeaderBytes(flags, body) \o payload
    \o Rep(0, Padded(Len(payload)) - Len(payload)) \o Rep(119, cs)

\* the block whose payload decodes to u bytes, with the given flags
SizedBlock(flags, u) ==
    BlockWith(flags,
              EncodeSize(Len(PayloadBytes(u))) \o EncodeSize(u) \o FilterBytes,
              PayloadBytes(u), 4)

\* uncompressed sizes of the well-formed blocks: both size fields of one
\* byte, a compressed-size field of two bytes before an uncompressed-size
\* field of one, and both fields of two bytes
PayloadSizes == {12, 126, 128, 300}

\* block flags: no size bit, one of the two, both, both with other bits
FlagValues == {0, 64, 128, 192, 195, 200}

\* the most accessor calls made on one block
MaxCalls == 3

\* The sources: form names what is at offset 12
BlockForms ==
    {[form |-> "ok", u |-> u, bytes |-> SizedBlock(BothSizes, u) \o IndexBytes(1)] :
        u \in PayloadSizes}
    \cup {[form |-> "ok", u |-> 234,
           bytes |-> BlockWith(BothSizes,
                               EncodeSize(Len(LzmaPayload)) \o EncodeSize(234)
                               \o FilterBytes,
                               LzmaPayload, 4) \o IndexBytes(1)]}
    \cup {[form |-> "flags", u |-> 128,
           bytes |-> SizedBlock(f, 128) \o IndexBytes(1)] : f \in FlagValues}
    \cup {[form |-> "null_c", u |-> 128,
           bytes |-> BlockWith(BothSizes, <<129, 0>>, PayloadBytes(128), 4)
                     \o IndexBytes(1)],
          [form |-> "null_u", u |-> 128,
           bytes |-> BlockWith(BothSizes, EncodeSize(132) \o <<129, 0>>,
                               PayloadBytes(128), 4) \o IndexBytes(1)],
          [form |-> "overrun_c", u |-> 128,
           bytes |-> BlockWith(BothSizes, <<129, 129>>, PayloadBytes(128), 4)
                     \o IndexBytes(1)],
          [form |-> "overrun_u", u |-> 128,
           bytes |-> BlockWith(BothSizes,
                               EncodeSize(132) \o <<129, 129, 129, 129>>,
                               PayloadBytes(128), 4) \o IndexBytes(1)],
          [form |-> "short", u |-> 128,
           bytes |-> SubSeq(SizedBlock(BothSizes, 128), 1, 100)],
          [form |-> "marker", u |-> 0, bytes |-> IndexBytes(0)],
          [form |-> "marker", u |-> 0, bytes |-> <<0>>],
          [form |-> "marker", u |-> 0,
           bytes |-> <<0>> \o Tail(SizedBlock(BothSizes, 128))],
          [form |-> "marker", u |-> 0,
           bytes |-> <<0>> \o Tail(SizedBlock(0, 128))],
          [form |-> "cut", u |-> 0, bytes |-> <<>>],
          [form |-> "cut", u |-> 0, bytes |-> <<2>>],
          [form |-> "cut", u |-> 0, bytes |-> <<2, BothSizes>>],
          [form |-> "cut", u |-> 0, bytes |-> <<2, 64>>]}

SizeOps == {"compressed_size", "uncompressed_size", "compressed_size_padded",
            "end_offset"}
DataOps == {"compressed_data", "uncompressed_data"}

\* the record of the calls made on the block: the last call (its operation,
\* what it raised, the integer val or the object ret it returned, the reads
\* io it made of the source), and what the calls before it established:
\* seen, the first outcome of the same accessor; made, the bytes of the
\* first object of each kind; held, the object of the kind asked for that
\* was alive when the call was made; objects, the number of objects made
\* before the call; trail, the values the cursor _decode_offset has had
NewAcc ==
    [op |-> "none", exc |-> "", why |-> "", val |-> 0, ret |-> None,
     io |-> 0, calls |-> 0, io_ok |-> TRUE, seen |-> None, held |-> None,
     objects |-> 0, outcomes |-> [o \in SizeOps |-> None],
     made |-> [k \in {"c", "u"} |-> None], pre_made |-> None,
     trail |-> <<2>>]

InitBlock ==
    /\ ThreadsIdle
    /\ \E f \in BlockForms :
         /\ stream = [kind |-> "block", form |-> f.form, u |-> f.u]
         /\ src = StreamHeaderBytes(1) \o f.bytes
    /\ check_size = CHECK_SIZE[1]
    /\ block_index = <<>> /\ block_max = None
    /\ last = NoCall /\ hist = NoCall
    /\ blk = NoBlock /\ dec = NoDec
    /\ acc = NewAcc /\ heap = <<>>

blockRest == <<fileVars, thVars, dec>>

\* the constructor has run: c is its result
ConstructedBlock(io_ok, c) ==
    /\ blk' = IF c.exc = "" THEN c.blk ELSE NoBlock
    /\ acc' = [acc EXCEPT !.op = "init", !.exc = c.exc, !.why = c.why,
                          !.io_ok = io_ok]

\* XZBlock(fp, 12, check_size, file_lock)
Construct(file_lock, io_ok) ==
    /\ acc.op = "none"
    /\ ConstructedBlock(io_ok, XZBlock_init(src, STREAM_HEADER_LENGTH,
                                            check_size, file_lock, io_ok))
    /\ UNCHANGED <<blockRest, heap>>

\* the block is constructed and may be called once more
Callable == acc.op # "none" /\ blk # NoBlock /\ acc.calls < MaxCalls

\* the cursor trail t after a call that took the block from b0 to b1: the
\* compressed-size field is decoded before the other
Trail(t, b0, b1) ==
    IF b1.decode_offset = b0.decode_offset THEN t
    ELSE IF Not(b0.compressed_size)
            /\ compressed_size(b0).blk.decode_offset # b1.decode_offset
    THEN t \o <<compressed_size(b0).blk.decode_offset, b1.decode_offset>>
    ELSE Append(t, b1.decode_offset)

\* the size accessor op on the block b
SizeAccessor(op, b) ==
    CASE op = "compressed_size" -> compressed_size(b)
      [] op = "uncompressed_size" -> uncompressed_size(b)
      [] op = "compressed_size_padded" -> compressed_size_padded(b)
      [] op = "end_offset" -> end_offset(b)

\* a size accessor has run: r is its result
SizeCalled(op, r) ==
    /\ blk' = r.blk
    /\ acc' = [acc EXCEPT
                 !.op = op, !.exc = r.exc, !.why = "", !.val = r.val,
                 !.ret = None, !.io = 0, !.calls = @ + 1,
                 !.seen = acc.outcomes[op], !.held = None,
                 !.objects = Len(heap), !.pre_made = None,
                 !.outcomes = [@ EXCEPT ![op] = IF @ = None
                                                 THEN Some(<<r.exc, r.val>>)
                                                 ELSE @],
                 !.trail = Trail(@, blk, r.blk)]

\* a call of one of the size accessors
SizeCall(op) ==
    /\ Callable
    /\ SizeCalled(op, SizeAccessor(op, blk))
    /\ UNCHANGED <<blockRest, heap>>

\* the weak reference of the block b that the accessor op looks at
RefOf(op, b) ==
    IF op = "compressed_data" THEN b.compressed_data ELSE b.uncompressed_data
KindOf(op) == IF op = "compressed_data" THEN "c" ELSE "u"

\* the heap once the caller holds the object ret that a call returned
Held(h, ret) ==
    IF ret = None THEN h ELSE [h EXCEPT ![Val(ret)].owners = @ + 1]

\* a payload accessor has run: r is its result; the caller keeps the
\* object it was given
DataCalled(op, r) ==
    /\ blk' = r.blk
    /\ heap' = Held(r.heap, r.ret)
    /\ acc' = [acc EXCEPT
                 !.op = op, !.exc = r.exc, !.why = "", !.val = 0,
                 !.ret = r.ret, !.io = r.io, !.calls = @ + 1,
                 !.seen = None,
                 !.held = IF Gone(heap, RefOf(op, blk)) THEN None
                          ELSE RefOf(op, blk),
                 !.objects = Len(heap), !.pre_made = acc.made[KindOf(op)],
                 !.made = [k \in {"c", "u"} |->
                             IF @[k] = None /\ k = KindOf(op) /\ r.exc = ""
                             THEN Some(r.heap[Val(r.ret)].data) ELSE @[k]],
                 !.trail = Trail(@, blk, r.blk)]

\* a call of compressed_data or uncompressed_data
DataCall(op) ==
    /\ Callable
    /\ DataCalled(op, IF op = "compressed_data"
                      THEN compressed_data(src, blk, heap)
                      ELSE uncompressed_data(src, blk, heap))
    /\ UNCHANGED blockRest

\* a caller lets go of an object it holds
Drop(id) ==
    /\ id \in DOMAIN heap /\ heap[id].owners > 0
    /\ heap' = [heap EXCEPT ![id].owners = @ - 1]
    /\ acc' = [acc EXCEPT !.op = "drop"]
    /\ UNCHANGED <<blockRest, blk>>

NextBlock ==
    \/ \E file_lock \in {None, Some(FileLock)}, io_ok \in BOOLEAN :
          Construct(file_lock, io_ok)
    \/ \E op \in SizeOps : SizeCall(op)
    \/ \E op \in DataOps : DataCall(op)
    \/ \E id \in 1..(2 * MaxCalls) : Drop(id)

SpecBlock == InitBlock /\ [][NextBlock]_vars

\* the last call was a payload accessor on a well-formed block
OnPayload == acc.op \in DataOps /\ stream.form = "ok"

\* what C11 says of a payload accessor call that returned: the object is
\* alive, its bytes are those of the first object of its kind, and it is
\* the object already held (no read of the source) or, when none was
\* alive, a new one (for compressed_data read from the source)
CacheCorrect ==
    /\ acc.ret # None /\ heap[Val(acc.ret)].owners > 0
    /\ acc.pre_made # None => heap[Val(acc.ret)].data = Val(acc.pre_made)
    /\ acc.held # None => acc.io = 0 /\ acc.ret = acc.held
    /\ acc.held = None =>
          /\ Val(acc.ret) > acc.objects
          /\ acc.op = "compressed_data" => acc.io = 1

\* C11: on a block of an unchanged source every call of compressed_data and
\* uncompressed_data returns a live buffer: the one still held by an owner,
\* with no source I/O, or a recomputed one with the bytes of the first.
C11_WeakCache == OnPayload => (acc.exc = "" /\ CacheCorrect)

\* the same on the blocks whose size fields take two bytes each
C11_OnLongFields ==
    (OnPayload /\ stream.u >= 128) => (acc.exc = "" /\ CacheCorrect)

\* uncompressed_data recomputed after every owner let go of the first object
C11_Recomputed ==
    /\ OnPayload /\ stream.u >= 128 /\ acc.op = "uncompressed_data"
    /\ acc.exc = "" /\ acc.held = None /\ acc.pre_made # None

\* the constructor ran last and its seek and reads met no I/O error; the
\* bytes of the source from offset 12 on are what it could read
Built == acc.op = "init" /\ acc.io_ok
AtBlock == SubSeq(src, STREAM_HEADER_LENGTH + 1, Len(src))

\* C12: constructing a block at an offset whose first byte is 0x00 raises
\* the index marker's IndexError and nothing else, whatever bytes follow.
C12_MarkerFirst ==
    (Built /\ Len(AtBlock) >= 1 /\ AtBlock[1] = 0)
        => (acc.exc = "IndexError" /\ acc.why = "marker" /\ blk = NoBlock)

\* a zero byte followed by a header whose flags lack the size bits
C12_Witness ==
    /\ Built /\ Len(AtBlock) >= 2 /\ AtBlock[1] = 0 /\ AtBlock[2] = 0
    /\ acc.exc = "IndexError"

\* C15: with a non-zero size byte the constructor raises NotImplementedError
\* exactly when bit 6 or bit 7 of the flags byte is clear; with both bits
\* set it returns a block none of whose size fields is decoded.
C15_SizeBits ==
    (Built /\ Len(AtBlock) >= 1 /\ AtBlock[1] # 0) =>
        /\ acc.exc = "NotImplementedError"
              <=> /\ Len(AtBlock) >= 2
                  /\ ~Bit6(AtBlock[2]) \/ ~HighBit(AtBlock[2])
        /\ (Len(AtBlock) >= 2 /\ Bit6(AtBlock[2]) /\ HighBit(AtBlock[2]))
              => /\ acc.exc = "" /\ blk # NoBlock
                 /\ blk.decode_offset = 2
                 /\ blk.compressed_size = None
                 /\ blk.uncompressed_size = None

\* a header with one of the two size bits was refused
C15_Witness ==
    /\ Built /\ Len(AtBlock) >= 2 /\ AtBlock[1] # 0
    /\ Bit6(AtBlock[2]) /\ ~HighBit(AtBlock[2])
    /\ acc.exc = "NotImplementedError"

\* the number of bytes of the size field that starts at header offset off:
\* the bytes up to the first one whose high bit is clear (up to the end of
\* the header when there is none)
FieldLen(h, off) ==
    LET ends == {j \in 0..(Len(h) - 1 - off) : At(h, off + j) < 128}
    IN IF ends = {} THEN Len(h) - off
       ELSE 1 + (CHOOSE j \in ends : \A k \in ends : j <= k)

\* what C13 says of the calls made so far on the block: the cursor has
\* moved at most twice, first from header offset 2 to the byte right after
\* the compressed-size field; a size accessor called again does what its
\* first call did; and uncompressed_size returns a value only when both
\* fields were decoded
DecodedOnce ==
    /\ Len(acc.trail) <= 3 /\ acc.trail[1] = 2
    /\ Len(acc.trail) >= 2 => acc.trail[2] = 2 + FieldLen(blk.header, 2)
    /\ (acc.op \in SizeOps /\ acc.seen # None)
          => <<acc.exc, acc.val>> = Val(acc.seen)
    /\ (acc.op = "uncompressed_size" /\ acc.exc = "") => Len(acc.trail) = 3

\* C13: whatever size accessors are called on a block, in whatever order
\* and number, each size field is decoded at most once, compressed_size
\* from header offset 2 and uncompressed_size from the byte right after
\* that field, and every accessor returns the same value on every call.
C13_DecodedOnce == blk # NoBlock => DecodedOnce

\* the same on the well-formed blocks whose size fields take two bytes each
C13_OnLongFields ==
    (blk # NoBlock /\ stream.form = "ok" /\ stream.u >= 128) => DecodedOnce

\* the same when C3's one-byte fields are left aside: only the place the
\* cursor reaches after the compressed-size field is not looked at
C13_Stable ==
    blk # NoBlock =>
        /\ (acc.op \in SizeOps /\ acc.seen # None)
              => <<acc.exc, acc.val>> = Val(acc.seen)
        /\ (acc.op = "uncompressed_size" /\ acc.exc = "")
              => Len(acc.trail) = 3

----------------------------------------------------------------------------
(* Two threads that both extend the index of one XZFile: specification     *)
(* SpecExtend.  The steps are those of SpecThreads; no thread reads a      *)
(* payload.                                                                 *)

\* the stream the threads extend: two well-formed blocks
ExtendLayouts == {Layout(1, <<a, a>>, "", "index") : a \in {<<130, 300>>}}

InitExtend == InitOn(ExtendLayouts)

NextExtend ==
    \E t \in Threads :
        \/ \E n \in 1..2 : CallGetBlock(t, n)
        \/ CallBlockCount(t)
        \/ BcTest(t)
        \/ BcCall(t)
        \/ GbEntry(t)
        \/ GbTest(t)
        \/ GbReturn(t)
        \/ GbSeal(t)
        \/ SizeTest(t)
        \/ EvalFirst(t)
        \/ EvalTurn(t)
        \/ EvalAdvance(t)
        \/ SizeAssign(t)
        \/ SizeReturn(t)
        \/ InitSeek(t)
        \/ InitRead1(t)
        \/ InitRead2(t)
        \/ AppendBlock(t)

SpecExtend == InitExtend /\ [][NextExtend]_vars

\* two entries of the index are blocks at the same offset
Duplicates ==
    \E j, k \in 1..Len(block_index) :
        j < k /\ block_index[j].offset = block_index[k].offset

\* C14: get_block and block_count take no lock, and nothing is tested
\* again between the loop test and the append: no lock is ever held, and
\* the block a thread is about to append was constructed past the entry
\* before its own position i, which is an entry of the index but need not
\* be the last one any more; so two threads append blocks of the same
\* offset (see C14_Raced).
C14_Unserialized ==
    /\ \A l \in DOMAIN locks : locks[l] = 0
    /\ \A t \in Threads :
          th[t].pc = "append" =>
              /\ th[t].i <= Len(block_index)
              /\ th[t].blk.offset > block_index[th[t].i].offset

\* both threads appended the block of one frontier offset, so that the
\* index has more entries than the stream has blocks, and a block was
\* appended after _block_max was set
C14_Raced ==
    /\ torn = None /\ Duplicates /\ hist.late /\ block_max # None
    /\ Len(block_index) > NumBlocks(stream)

----------------------------------------------------------------------------
(* Two threads calling the size accessors of one XZBlock: specification    *)
(* SpecAccess.  A step is one statement of an accessor: it reads the       *)
(* attributes of the block as they are when it is taken.                   *)

AccessOps == {"compressed_size", "uncompressed_size", "end_offset"}

\* the blocks the threads share: well formed, size fields of two bytes each
AccessSizes == {128, 300}

\* The local state of a thread: its position pc, the accessor op it was
\* asked for, the locals of _evaluate_size (g, the 7-bit groups of the
\* accumulator, i, and size, the value returned), the number nr of the
\* read of self.compressed_size in compressed_size_padded, the values v
\* and v2 of the reads before, and what its last call returned (ret) or
\* raised (exc)
AccIdle == [pc |-> "idle", op |-> "", g |-> <<>>, size |-> 0, i |-> 0,
            nr |-> 0, v |-> 0, v2 |-> 0,
            ret |-> None, exc |-> "", calls |-> 0]

InitAccess ==
    /\ \E u \in AccessSizes :
         /\ stream = [kind |-> "block", form |-> "ok", u |-> u]
         /\ src = StreamHeaderBytes(1) \o SizedBlock(BothSizes, u)
                  \o IndexBytes(1)
    /\ check_size = CHECK_SIZE[1]
    /\ block_index = <<>> /\ block_max = None
    /\ last = NoCall /\ hist = NoCall
    /\ blk = XZBlock_init(src, STREAM_HEADER_LENGTH, check_size,
                          Some(FileLock), TRUE).blk
    /\ dec = NoDec /\ BlockIdle
    /\ fp_pos = 0 /\ fp_by = <<>> /\ locks = <<>> /\ torn = None
    /\ th = [t \in Threads |-> AccIdle]

accessRest == <<fileVars, dec, acc, heap, fp_pos, fp_by, locks, torn>>

\* thread t goes on at position p
At_(t, p) == th[t].pc = p
Step(t, p) == th' = [th EXCEPT ![t].pc = p]

\* the call of thread t ends: it returns ret, or raises exc
Return(t, ret) ==
    th' = [th EXCEPT ![t].pc = "idle", ![t].ret = Some(ret), ![t].exc = ""]
RaiseIn(t, exc) ==
    th' = [th EXCEPT ![t].pc = "idle", ![t].ret = None, ![t].exc = exc]

\* thread t calls the accessor op
CallAccessor(t, op) ==
    /\ At_(t, "idle") /\ th[t].calls < MaxThreadCalls
    /\ th' = [th EXCEPT ![t] = [AccIdle EXCEPT
                 !.pc = IF op = "uncompressed_size" THEN "u_test"
                        ELSE "c_test",
                 !.op = op, !.nr = 1, !.calls = th[t].calls + 1]]
    /\ UNCHANGED <<blk, accessRest>>

\* compressed_size: if not self._compressed_size
TestCompressed(t) ==
    /\ At_(t, "c_test")
    /\ Step(t, IF Not(blk.compressed_size) THEN "c_decode" ELSE "c_ret")
    /\ UNCHANGED <<blk, accessRest>>

\* uncompressed_size: if not self._uncompressed_size
TestUncompressed(t) ==
    /\ At_(t, "u_test")
    /\ Step(t, IF Not(blk.uncompressed_size) THEN "c_test" ELSE "u_ret")
    /\ UNCHANGED <<blk, accessRest>>

\* _evaluate_size: size = int(head_data[self._decode_offset]) & 0x7F; i = 0
DecodeFirst(t) ==
    /\ At_(t, "c_decode") \/ At_(t, "u_decode")
    /\ IF blk.decode_offset >= Len(blk.header)
       THEN RaiseIn(t, "IndexError")
       ELSE th' = [th EXCEPT
                     ![t].pc = IF At_(t, "c_decode") THEN "c_loop"
                               ELSE "u_loop",
                     ![t].i = 0,
                     ![t].g = <<Low7(At(blk.header, blk.decode_offset))>>]
    /\ UNCHANGED <<blk, accessRest>>

\* one turn of the loop of _evaluate_size, x the byte at
\* self._decode_offset + i
DecodeByte(t, x) ==
    IF x = 0 THEN RaiseIn(t, "ValueError")
    ELSE th' = [th EXCEPT
                  ![t].pc = IF HighBit(x) THEN @
                            ELSE IF At_(t, "c_loop") THEN "c_adv"
                            ELSE "u_adv",
                  ![t].i = @ + 1, ![t].g = Append(@, Low7(x))]

\* _evaluate_size: i += 1; x = int(head_data[self._decode_offset+i]); the
\* test of x, size |= ..., the test that ends the loop
DecodeTurn(t) ==
    /\ At_(t, "c_loop") \/ At_(t, "u_loop")
    /\ IF blk.decode_offset + th[t].i + 1 >= Len(blk.header)
       THEN RaiseIn(t, "IndexError")
       ELSE DecodeByte(t, At(blk.header, blk.decode_offset + th[t].i + 1))
    /\ UNCHANGED <<blk, accessRest>>

\* _evaluate_size: self._decode_offset += i + 1; return size
Advance(t) ==
    /\ At_(t, "c_adv") \/ At_(t, "u_adv")
    /\ blk' = [blk EXCEPT !.decode_offset = @ + th[t].i + 1]
    /\ th' = [th EXCEPT
                ![t].pc = IF At_(t, "c_adv") THEN "c_set" ELSE "u_set",
                ![t].size = GroupsValue(th[t].g), ![t].g = <<>>]
    /\ UNCHANGED accessRest

\* self._compressed_size = the value _evaluate_size returned
AssignCompressed(t) ==
    /\ At_(t, "c_set")
    /\ blk' = [blk EXCEPT !.compressed_size = Some(th[t].size)]
    /\ Step(t, "c_ret")
    /\ UNCHANGED accessRest

\* end_offset: compressed_size_padded has its result p
EndOffsetDone(t, p) ==
    Return(t, EndOffsetOf(blk, [exc |-> "", val |-> p, blk |-> blk]).val)

\* compressed_size_padded inside end_offset: self.compressed_size has
\* returned val.  The first read is tested for a multiple of 4; the value
\* returned is made of one more read, or of two.
EndOffsetRead(t, val) ==
    CASE th[t].nr = 1 ->
           th' = [th EXCEPT ![t].pc = "c_test", ![t].nr = 2, ![t].v = val]
      [] th[t].nr = 2 ->
           IF th[t].v % 4 = 0 THEN EndOffsetDone(t, val)
           ELSE th' = [th EXCEPT ![t].pc = "c_test", ![t].nr = 3,
                                 ![t].v2 = val]
      [] th[t].nr = 3 -> EndOffsetDone(t, th[t].v2 + (4 - (val % 4)))

\* return self._compressed_size, to the caller or to the accessor that
\* asked for it
ReturnCompressed(t) ==
    /\ At_(t, "c_ret")
    /\ CASE th[t].op = "compressed_size" ->
              Return(t, Val(blk.compressed_size))
         [] th[t].op = "uncompressed_size" ->
              th' = [th EXCEPT ![t].pc = "u_stale",
                               ![t].v = Val(blk.compressed_size)]
         [] th[t].op = "end_offset" ->
              EndOffsetRead(t, Val(blk.compressed_size))
    /\ UNCHANGED <<blk, accessRest>>

\* self._uncompressed_size = self.compressed_size
AssignStale(t) ==
    /\ At_(t, "u_stale")
    /\ blk' = [blk EXCEPT !.uncompressed_size = Some(th[t].v)]
    /\ Step(t, "u_decode")
    /\ UNCHANGED accessRest

\* self._uncompressed_size = the value _evaluate_size returned
AssignUncompressed(t) ==
    /\ At_(t, "u_set")
    /\ blk' = [blk EXCEPT !.uncompressed_size = Some(th[t].size)]
    /\ Step(t, "u_ret")
    /\ UNCHANGED accessRest

\* return self._uncompressed_size
ReturnUncompressed(t) ==
    /\ At_(t, "u_ret")
    /\ Return(t, Val(blk.uncompressed_size))
    /\ UNCHANGED <<blk, accessRest>>

NextAccess ==
    \E t \in Threads :
        \/ \E op \in AccessOps : CallAccessor(t, op)
        \/ TestCompressed(t)
        \/ TestUncompressed(t)
        \/ DecodeFirst(t)
        \/ DecodeTurn(t)
        \/ Advance(t)
        \/ AssignCompressed(t)
        \/ ReturnCompressed(t)
        \/ AssignStale(t)
        \/ AssignUncompressed(t)
        \/ ReturnUncompressed(t)

SpecAccess == InitAccess /\ [][NextAccess]_vars

\* the block as constructed, and what one thread alone gets from it
Fresh ==
    XZBlock_init(src, STREAM_HEADER_LENGTH, check_size, Some(FileLock),
                 TRUE).blk
Alone(op) == SizeAccessor(op, Fresh)

\* C16: whatever the interleaving of two threads calling compressed_size,
\* uncompressed_size and end_offset on one block, every call returns what
\* a single thread gets, and the cursor is moved once for each field: it
\* is never beyond the place where one thread leaves it.
C16_ThreadSafe ==
    /\ \A t \in Threads :
          (th[t].pc = "idle" /\ th[t].op # "") =>
              /\ th[t].exc = Alone(th[t].op).exc
              /\ th[t].ret = Some(Alone(th[t].op).val)
    /\ blk.decode_offset <= Alone("uncompressed_size").blk.decode_offset

----------------------------------------------------------------------------
(* Two threads reading the blocks of an index already built: specification *)
(* SpecLock.  The steps are those of SpecThreads, with uncompressed_data   *)
(* and with reads that fail.                                               *)

\* uncompressed sizes of the blocks of the streams
LockSizes == {128, 300}

\* The sources: two blocks whose payloads decode, or one such block before
\* a block whose compressed-size field holds a zero byte
LockSources ==
    {[u |-> u, bad |-> FALSE,
      bytes |-> StreamHeaderBytes(1) \o SizedBlock(BothSizes, u)
                \o SizedBlock(BothSizes, u) \o IndexBytes(2)] :
        u \in LockSizes}
    \cup {[u |-> u, bad |-> TRUE,
           bytes |-> StreamHeaderBytes(1) \o SizedBlock(BothSizes, u)
                     \o BlockWith(BothSizes, <<129, 0>>, PayloadBytes(u), 4)
                     \o IndexBytes(2)] :
             u \in LockSizes}

\* the XZFile f after get_block(1), r the result of that call
Grown(f, r) == [f EXCEPT !.block_index = r.index, !.block_max = r.max]
GrownFile(s, f) ==
    Grown(f, get_block(s, f.check_size, f.block_index, f.block_max, 1, 0, 0))

\* the XZFile f made of the source s is in place
InitFile(s, f) ==
    /\ src = s
    /\ check_size = f.check_size
    /\ block_index = f.block_index
    /\ block_max = f.block_max

InitLock ==
    /\ DecoderIdle
    /\ \E s \in LockSources :
          /\ stream = [kind |-> "blocks", u |-> s.u, bad |-> s.bad]
          /\ InitFile(s.bytes, GrownFile(s.bytes, XZFile_init(s.bytes)))
    /\ last = NoCall /\ hist = NoLate
    /\ fp_pos = block_index[2].offset + block_index[2].header_length
    /\ fp_by = <<0, "init">>
    /\ locks = [l \in {FileLock, NewLock(STREAM_HEADER_LENGTH)} |-> 0]
    /\ th = [t \in Threads |-> Idle]
    /\ torn = None

\* the calls: thread 1 asks any block for its check or its compressed
\* data, thread 2 asks the last block for its uncompressed data
LockCalls ==
    {<<1, op, k>> : op \in {"block_check", "compressed_data"}, k \in 1..2}
    \cup {<<2, "uncompressed_data", 2>>}

NextLock ==
    \E t \in Threads :
        \/ \E c \in LockCalls : c[1] = t /\ StartRead(t, c[2], c[3])
        \/ Acquire(t)
        \/ LockedSeek(t)
        \/ LockedRead(t)
        \/ IoFail(t)
        \/ Release(t)
        \/ CdTest(t)
        \/ CdTested(t)
        \/ SizeTest(t)
        \/ EvalFirst(t)
        \/ EvalTurn(t)
        \/ EvalAdvance(t)
        \/ SizeAssign(t)
        \/ SizeReturn(t)
        \/ CdMake(t)
        \/ CdTake(t)
        \/ CdReturn(t)
        \/ UdTest(t)
        \/ UdTested(t)
        \/ UdDecode(t)
        \/ USizeTest(t)
        \/ UStale(t)
        \/ USizeAssign(t)
        \/ USizeReturn(t)
        \/ UdMake(t)
        \/ UdTake(t)
        \/ UdReturn(t)
        \/ Forget(t)

SpecLock == InitLock /\ [][NextLock]_vars

\* the lock thread t's operation works under, and the locks t holds
LockOf(t) == block_index[th[t].k].fp_lock
HeldBy(t) == {l \in DOMAIN locks : locks[l] = t}

\* C19: no operation can deadlock on the lock.  A thread that is about to
\* acquire a lock holds none; a thread holds a lock only inside its with
\* statement, and then holds that one only; the lock a thread waits for is
\* held by a thread inside its with statement, where no lock is acquired;
\* after the operation, and in lzma.decompress, the thread holds no lock,
\* also when the operation raised.
C19_NoDeadlock ==
    \A t \in Threads :
        /\ ~InSection(t) => HeldBy(t) = {}
        /\ InSection(t) => HeldBy(t) = {LockOf(t)}
        /\ (th[t].pc = "lock" /\ locks[LockOf(t)] # 0)
              => InSection(locks[LockOf(t)])

\* a size accessor raised inside the with statement of thread 1, the lock
\* was released, and thread 2 has acquired it since
C19_Witness ==
    /\ th[1].pc = "idle" /\ th[1].op = "" /\ th[1].exc = "ValueError"
    /\ InSection(2) /\ LockOf(2) = FileLock /\ locks[FileLock] = 2

----------------------------------------------------------------------------
(* One thread extending the index, a statement at a time, on every layout: *)
(* specification SpecTerm.  A thread that is inside a call executes its    *)
(* next statement; nothing obliges the caller to call again.               *)

InitTerm == InitOn(Layouts)

\* the calls
CallTerm ==
    \/ \E n \in 0..MaxBlocks : CallGetBlock(1, n)
    \/ CallBlockCount(1)

\* the statements of a call under way
StepTerm ==
    \/ BcTest(1)
    \/ BcCall(1)
    \/ GbEntry(1)
    \/ GbTest(1)
    \/ GbReturn(1)
    \/ GbSeal(1)
    \/ SizeTest(1)
    \/ EvalFirst(1)
    \/ EvalTurn(1)
    \/ EvalAdvance(1)
    \/ SizeAssign(1)
    \/ SizeReturn(1)
    \/ InitSeek(1)
    \/ InitRead1(1)
    \/ InitRead2(1)
    \/ AppendBlock(1)

NextTerm == CallTerm \/ StepTerm

SpecTerm == InitTerm /\ [][NextTerm]_vars /\ WF_vars(StepTerm)

\* every entry of the index but the first starts after the one before it,
\* past its header of at least 8 bytes, and inside the source or at its end
Advancing ==
    /\ \A k \in 1..Len(block_index) : block_index[k].header_length >= 8
    /\ \A k \in 2..Len(block_index) :
          /\ block_index[k].offset
                >= block_index[k - 1].offset + block_index[k - 1].header_length
          /\ block_index[k].offset < Len(src)

\* the call of the thread is over
CallOver == th[1].pc = "idle"

\* C20: single-threaded block_count() and get_block(n) terminate.  The
\* offsets of the index entries increase strictly, by at least the length
\* of a header, and every call that is under way is eventually over: by its
\* return or by an exception.
C20_Terminates == []Advancing /\ (~CallOver ~> CallOver)

\* block_count() went through a source of three blocks and is over: the
\* index holds them at increasing offsets and _block_max is set
C20_Witness ==
    /\ CallOver /\ block_max = Some(2) /\ Len(block_index) = 3
    /\ block_index[3].offset > block_index[2].offset
    /\ block_index[2].offset > block_index[1].offset

====
